---- MODULE Spec2Model ----
(***************************************************************************)
(* The failover decision engine of intelligent_failover.py                 *)
(* (IntelligentCloudflareFailover): the MonitorState it keeps, the DNS     *)
(* record it reads and rewrites, the state file it persists to, and the    *)
(* operations that change them: construction with startup reconciliation,  *)
(* one iteration of the monitor loop, and the two manual overrides.        *)
(***************************************************************************)
EXTENDS Integers, Sequences, FiniteSets, TLC

----------------------------------------------------------------------------
\* Configuration and the thresholds set by the constructor.

primary_ip == "172.171.99.178"
backup_ip == "172.171.100.13"
\* A record content that is neither of the two configured addresses.
other_ip == "198.51.100.7"

check_interval == 30
latency_threshold_ms == 100
failure_threshold == 2
stability_period == 600
success_threshold == stability_period \div check_interval
HistoryCapacity == 100

\* Python's None, for the Optional[float] and Optional[datetime] fields.
None == -1
\* Python's None, for the Optional[str] error field.
NoError == "None"

----------------------------------------------------------------------------
\* Bounds of the model.

\* Spec: a short horizon with every operation and every fault.
MaxChecks == 3
MaxOps == 1

\* SpecMonitor: one engine, long enough for a failover and a full restore.
DeepChecks == 22
DeepUnhealthy == 2
DeepFaults == 1

\* SpecHistory: more checks than health_history holds.
HistoryChecks == 102
HistoryUnhealthy == 0

\* SpecCli: the checks made, and the commands run and provider calls failed.
CliChecks == 2
CliOps == 2
ProcChecks == failure_threshold
ProcOps == 2
Excess == 1

\* SpecShared: the checks made, and the commands run beside the loop.
SharedChecks == failure_threshold
SharedOps == 1

\* SpecSilent: the checks made, and the provider calls failed or unanswered.
SilentChecks == failure_threshold
SilentOps == 1

\* SpecStatus: the checks made, and the status requests and provider faults.
StatusChecks == failure_threshold
StatusOps == 1

\* SpecRetry: the calls the provider fails, and the unhealthy checks a
\* recovered primary still gives.
RetryFaults == 1
RecoverBlips == failure_threshold - 1
RecoverFaults == 1
SimpleCalls == 3
SimpleFaults == 2
WebRequests == 2
WebFaults == 1
StartupChecks == failure_threshold
StartupOps == 1
ProbeChecks == failure_threshold
ConfigChecks == failure_threshold
RetryBlips == failure_threshold - 1

----------------------------------------------------------------------------
VARIABLES
    state,  \* self.state: the MonitorState of the running engine
    dns,    \* the content of the DNS record at the provider
    file,   \* the state file
    now,    \* the last instant datetime.now() returned
    pc,     \* "down": no engine constructed, "run": engine constructed,
            \* "blocked": the engine waits in a provider call;
            \* or the line of process_health_check the monitor thread is
            \* about to run in the assignments that commit a transition
    left,   \* what the environment may still do (bounds of the model):
            \* checks, unhealthy checks, and ops (provider faults, manual
            \* overrides, process exits); the answers the endpoints may
            \* give, and whether reads of the record may fail
    ev,     \* what the last step did
    obs,    \* history variables: what has been observed so far
    status, \* the get_status call in flight in the status thread
    app     \* the web front end: monitor_status and where its monitor
            \* thread is in start_monitor

vars == <<state, dns, file, now, pc, left, ev, obs, status, app>>

----------------------------------------------------------------------------
\* MonitorState and its persistence.

DefaultState ==
    [current_ip |-> "",
     is_failed_over |-> FALSE,
     consecutive_failures |-> 0,
     consecutive_successes |-> 0,
     last_failover |-> None,
     last_restore |-> None,
     health_history |-> <<>>]

\* datetime.isoformat and datetime.fromisoformat: the file holds a string
\* for a datetime and null for None.
isoformat_coarse(t) == [null |-> FALSE, iso |-> t - (t % 2)]
isoformat(t) == [null |-> FALSE, iso |-> t]
fromisoformat(x) == x.iso
JsonNull == [null |-> TRUE, iso |-> 0]

\* The state file is absent, or holds text of one of these forms:
\*   "document"  the JSON object json.dump writes for a MonitorState;
\*   "cut"       a proper prefix of such a document (it may be empty);
\*   "text"      anything else that is not JSON;
\*   "foreign"   JSON whose keys are not the fields of MonitorState.
\* json.load raises on "cut" and "text"; MonitorState(**data) raises on
\* "foreign".
Parses(f) == f.form = "document"

\* load_state.  Its except clause logs through self.logger before it
\* returns the default state; logger says whether setup_logging has run.
\* Without it the handler itself raises AttributeError and load_state raises.
load_state(f, logger) ==
    IF ~f.exists THEN [raised |-> FALSE, state |-> DefaultState]
    ELSE IF ~Parses(f) THEN [raised |-> ~logger, state |-> DefaultState]
    ELSE [raised |-> FALSE,
          state |->
            [f.data EXCEPT
               !.last_failover = IF ~@.null THEN fromisoformat(@) ELSE None,
               !.last_restore = IF ~@.null THEN fromisoformat(@) ELSE None,
               !.health_history =
                   [i \in 1..Len(f.data.health_history) |->
                       [f.data.health_history[i] EXCEPT
                           !.timestamp = fromisoformat(@)]]]]

save_state(s) ==
    [exists |-> TRUE, form |-> "document",
     data |-> [s EXCEPT
                 !.last_failover = IF @ # None THEN isoformat(@)
                                   ELSE JsonNull,
                 !.last_restore = IF @ # None THEN isoformat(@)
                                  ELSE JsonNull,
                 !.health_history =
                     [i \in 1..Len(s.health_history) |->
                         [s.health_history[i] EXCEPT
                             !.timestamp = isoformat(@)]]]]

\* No state file (data is what nothing reads).
NoFile == [exists |-> FALSE, form |-> "absent",
           data |-> save_state(DefaultState).data]

\* What a save_state that did not finish leaves: open(..., 'w') has emptied
\* the file and json.dump has written a part of the document.
CutFile == [save_state(DefaultState) EXCEPT !.form = "cut"]

\* State files that save_state did not write.
TextFile == [save_state(DefaultState) EXCEPT !.form = "text"]
ForeignFile == [save_state(DefaultState) EXCEPT !.form = "foreign"]

----------------------------------------------------------------------------
\* The configuration.

\* The process environment is a function from the names that are set to
\* their values; os.getenv returns the default for a name that is not set.
getenv(env, name, default) ==
    IF name \in DOMAIN env THEN env[name] ELSE default

\* str.startswith.
startswith(s, prefix) ==
    Len(s) >= Len(prefix) /\ SubSeq(s, 1, Len(prefix)) = prefix

\* load_config requiring the API token only.
load_config_token_only(env) ==
    LET config ==
            [cf_api_token |-> getenv(env, "CF_API_TOKEN",
                                     "your_cloudflare_api_token_here"),
             cf_zone_id |-> getenv(env, "CF_ZONE_ID",
                                   "your_cloudflare_zone_id_here")]
        required == {"cf_api_token"}
        missing == {field \in required :
                        config[field] = ""
                        \/ startswith(config[field], "your_")}
    IN  [raised |-> missing # {}, config |-> config]

\* load_config: the values of the environment or their defaults; raises
\* ValueError when a required value is empty or starts with "your_".
load_config(env) ==
    LET config ==
            [cf_api_token |-> getenv(env, "CF_API_TOKEN",
                                     "your_cloudflare_api_token_here"),
             cf_zone_id |-> getenv(env, "CF_ZONE_ID",
                                   "your_cloudflare_zone_id_here")]
        required == {"cf_api_token", "cf_zone_id"}
        missing == {field \in required :
                        config[field] = ""
                        \/ startswith(config[field], "your_")}
    IN  [raised |-> missing # {}, config |-> config]

\* An environment with both required values set.
Configured == [CF_API_TOKEN |-> "token", CF_ZONE_ID |-> "zone"]

----------------------------------------------------------------------------
\* The health probe.

\* What requests.get does for one protocol: it returns a response with a
\* status, or raises Timeout, ConnectionError or another exception.
Answer(code) == [kind |-> "response", status |-> code]
Refused == [kind |-> "connection_error", status |-> 0]
TimedOut == [kind |-> "timeout", status |-> 0]
Broken == [kind |-> "other", status |-> 0]

\* The milliseconds after which requests.get gives up on a probe.
ProbeTimeout == 5000

\* What the primary (or backup) does during one probe: what it does on
\* http, what it does on https, and the milliseconds the probe takes.
FastResponse == [http |-> Answer(200), https |-> Answer(200), latency |-> 40]
SlowResponse == [http |-> Answer(200), https |-> Answer(200), latency |-> 150]
NoResponse == [http |-> Refused, https |-> Refused, latency |-> 10]
Responses == {FastResponse, SlowResponse, NoResponse}

\* The text of f"HTTP {response.status_code}".
HttpError(code) == "HTTP " \o ToString(code)

\* The loop over the protocols always giving up after the first protocol.
RECURSIVE try_protocols_once(_, _, _)
try_protocols_once(r, t, protocols) ==
    IF protocols = <<>> THEN
        [timestamp |-> t, success |-> FALSE, latency_ms |-> r.latency,
         error |-> "HTTP connection failed"]
    ELSE
        LET a == r[Head(protocols)]
        IN  IF a.kind = "response" THEN
                IF a.status < 500
                THEN [timestamp |-> t, success |-> TRUE,
                      latency_ms |-> r.latency, error |-> NoError]
                ELSE [timestamp |-> t, success |-> FALSE,
                      latency_ms |-> r.latency,
                      error |-> HttpError(a.status)]
            ELSE IF a.kind = "timeout" THEN
                [timestamp |-> t, success |-> FALSE,
                 latency_ms |-> r.latency, error |-> "HTTP timeout"]
            ELSE
                try_protocols_once(r, t, <<>>)

\* The loop over the protocols (lines 340-386): the first response decides,
\* a Timeout ends the probe, a ConnectionError or any other exception
\* moves on to the next protocol, and with no protocol left the probe has
\* failed.  Every exception of the body is caught inside the loop, so the
\* handler of lines 388-394 is reached by no outcome of requests.get.
RECURSIVE try_protocols(_, _, _)
try_protocols(r, t, protocols) ==
    IF protocols = <<>> THEN
        [timestamp |-> t, success |-> FALSE, latency_ms |-> r.latency,
         error |-> "HTTP connection failed"]
    ELSE
        LET a == r[Head(protocols)]
        IN  IF a.kind = "response" THEN
                IF a.status < 500
                THEN [timestamp |-> t, success |-> TRUE,
                      latency_ms |-> r.latency, error |-> NoError]
                ELSE [timestamp |-> t, success |-> FALSE,
                      latency_ms |-> r.latency,
                      error |-> HttpError(a.status)]
            ELSE IF a.kind = "timeout" THEN
                [timestamp |-> t, success |-> FALSE,
                 latency_ms |-> r.latency, error |-> "HTTP timeout"]
            ELSE
                try_protocols(r, t, Tail(protocols))

Protocols == <<"http", "https">>

ping_with_latency(r, t) == try_protocols(r, t, Protocols)

\* Python truthiness of an Optional[float]: None and 0.0 are false.
Truthy(x) == x # None /\ x # 0

----------------------------------------------------------------------------
\* The decision engine.

\* The classification of update_state with the threshold excluded.
is_healthy_strict(hc) ==
    hc.success
    /\ (~Truthy(hc.latency_ms) \/ hc.latency_ms < latency_threshold_ms)

is_healthy(hc) ==
    hc.success
    /\ (~Truthy(hc.latency_ms) \/ hc.latency_ms <= latency_threshold_ms)

\* should_failover without its test of is_failed_over.
should_failover_any_state(s, hc) ==
    IF ~hc.success THEN s.consecutive_failures >= failure_threshold
    ELSE IF Truthy(hc.latency_ms) /\ hc.latency_ms > latency_threshold_ms
         THEN s.consecutive_failures >= failure_threshold
    ELSE FALSE

\* should_failover with the threshold compared strictly.
should_failover_strict(s, hc) ==
    IF s.is_failed_over THEN FALSE
    ELSE IF ~hc.success THEN s.consecutive_failures > failure_threshold
    ELSE IF Truthy(hc.latency_ms) /\ hc.latency_ms > latency_threshold_ms
         THEN s.consecutive_failures > failure_threshold
    ELSE FALSE

should_failover(s, hc) ==
    IF s.is_failed_over THEN FALSE
    ELSE IF ~hc.success THEN s.consecutive_failures >= failure_threshold
    ELSE IF Truthy(hc.latency_ms) /\ hc.latency_ms > latency_threshold_ms
         THEN s.consecutive_failures >= failure_threshold
    ELSE FALSE

\* should_restore firing at the threshold and at no larger count.
should_restore_exact(s, hc) ==
    IF ~s.is_failed_over THEN FALSE
    ELSE IF ~hc.success THEN FALSE
    ELSE IF Truthy(hc.latency_ms) /\ hc.latency_ms > latency_threshold_ms
         THEN FALSE
    ELSE s.consecutive_successes = success_threshold

\* should_restore with the threshold compared strictly.
should_restore_strict(s, hc) ==
    IF ~s.is_failed_over THEN FALSE
    ELSE IF ~hc.success THEN FALSE
    ELSE IF Truthy(hc.latency_ms) /\ hc.latency_ms > latency_threshold_ms
         THEN FALSE
    ELSE s.consecutive_successes > success_threshold

should_restore(s, hc) ==
    IF ~s.is_failed_over THEN FALSE
    ELSE IF ~hc.success THEN FALSE
    ELSE IF Truthy(hc.latency_ms) /\ hc.latency_ms > latency_threshold_ms
         THEN FALSE
    ELSE s.consecutive_successes >= success_threshold

\* append_history evicting the newest entry instead of the oldest.
append_history_drops_newest(h, hc) ==
    LET h1 == Append(h, hc)
    IN  IF Len(h1) > HistoryCapacity THEN SubSeq(h1, 1, Len(h1) - 1) ELSE h1

append_history(h, hc) ==
    LET h1 == Append(h, hc)
    IN  IF Len(h1) > HistoryCapacity THEN Tail(h1) ELSE h1

\* update_state leaving the other counter as it is.
update_state_no_reset(s, hc) ==
    LET h == append_history(s.health_history, hc)
    IN  IF is_healthy(hc)
        THEN [s EXCEPT !.health_history = h,
                       !.consecutive_successes = @ + 1]
        ELSE [s EXCEPT !.health_history = h,
                       !.consecutive_failures = @ + 1]

update_state(s, hc) ==
    LET h == append_history(s.health_history, hc)
    IN  IF is_healthy(hc)
        THEN [s EXCEPT !.health_history = h,
                       !.consecutive_failures = 0,
                       !.consecutive_successes = @ + 1]
        ELSE [s EXCEPT !.health_history = h,
                       !.consecutive_failures = @ + 1,
                       !.consecutive_successes = 0]

----------------------------------------------------------------------------
\* One check cycle. readOk: get_dns_record returned a record; resp: what the
\* primary answered; writeOk: update_dns_record returned True.  The result
\* names the new state, the new record content, the clock, whether the state
\* was saved by the cycle itself, and what was done.

\* The assignments of a committed failover and of a committed restore, and
\* what a failed write leaves of the state (it is logged, nothing else).
\* A committed failover that stamps last_restore as well.
failover_committed_stamps_both(s, t) ==
    [s EXCEPT !.is_failed_over = TRUE,
              !.last_failover = t,
              !.last_restore = t,
              !.current_ip = backup_ip,
              !.consecutive_failures = 0]

failover_committed(s, t) ==
    [s EXCEPT !.is_failed_over = TRUE,
              !.last_failover = t,
              !.current_ip = backup_ip,
              !.consecutive_failures = 0]

restore_committed(s, t) ==
    [s EXCEPT !.is_failed_over = FALSE,
              !.last_restore = t,
              !.current_ip = primary_ip,
              !.consecutive_successes = 0]

\* A failed write that resets the counters all the same.
write_failed_resets(s) ==
    [s EXCEPT !.consecutive_failures = 0, !.consecutive_successes = 0]

write_failed(s) == s

\* A cycle whose read failed that counts a failed check all the same.
cycle_aborted_counts(s, d, t) ==
    [state |-> [s EXCEPT !.consecutive_failures = @ + 1,
                         !.consecutive_successes = 0],
     dns |-> d, now |-> t, saved |-> FALSE, ret |-> FALSE,
     checked |-> FALSE, healthy |-> FALSE, attempted |-> "none",
     write_ok |-> FALSE]

\* The cycle whose read of the record failed: logged, and False returned.
cycle_aborted(s, d, t) ==
    [state |-> s, dns |-> d, now |-> t, saved |-> FALSE, ret |-> FALSE,
     checked |-> FALSE, healthy |-> FALSE, attempted |-> "none",
     write_ok |-> FALSE]

\* The cycle in which no rule fired stamping last_restore.
no_transition_stamps(s1, d, t, hc) ==
    [state |-> [s1 EXCEPT !.last_restore = t], dns |-> d, now |-> t,
     saved |-> FALSE, ret |-> TRUE, checked |-> TRUE,
     healthy |-> is_healthy(hc), attempted |-> "none", write_ok |-> FALSE]

\* The cycle in which neither should_failover nor should_restore fired:
\* update_state has run, nothing else is done.
no_transition(s1, d, t, hc) ==
    [state |-> s1, dns |-> d, now |-> t, saved |-> FALSE, ret |-> TRUE,
     checked |-> TRUE, healthy |-> is_healthy(hc), attempted |-> "none",
     write_ok |-> FALSE]

process_health_check(s, d, t, readOk, resp, writeOk) ==
    IF ~readOk THEN cycle_aborted(s, d, t)
    ELSE
        LET s0 == [s EXCEPT !.current_ip = d]
            hc == ping_with_latency(resp, t + 1)
            s1 == update_state(s0, hc)
        IN  IF should_failover(s1, hc) THEN
                IF writeOk THEN
                    [state |-> failover_committed(s1, t + 2),
                     dns |-> backup_ip, now |-> t + 2, saved |-> TRUE,
                     ret |-> TRUE, checked |-> TRUE, healthy |-> is_healthy(hc),
                     attempted |-> "backup", write_ok |-> TRUE]
                ELSE
                    [state |-> write_failed(s1), dns |-> d, now |-> t + 1,
                     saved |-> FALSE,
                     ret |-> TRUE, checked |-> TRUE, healthy |-> is_healthy(hc),
                     attempted |-> "backup", write_ok |-> FALSE]
            ELSE IF should_restore(s1, hc) THEN
                IF writeOk THEN
                    [state |-> restore_committed(s1, t + 2),
                     dns |-> primary_ip, now |-> t + 2, saved |-> TRUE,
                     ret |-> TRUE, checked |-> TRUE, healthy |-> is_healthy(hc),
                     attempted |-> "primary", write_ok |-> TRUE]
                ELSE
                    [state |-> write_failed(s1), dns |-> d, now |-> t + 1,
                     saved |-> FALSE,
                     ret |-> TRUE, checked |-> TRUE, healthy |-> is_healthy(hc),
                     attempted |-> "primary", write_ok |-> FALSE]
            ELSE no_transition(s1, d, t + 1, hc)

\* process_health_check raising an exception after the record was read and
\* before the probe: current_ip holds the record's content, nothing else ran.
cycle_raised(s, d, t) ==
    [state |-> [s EXCEPT !.current_ip = d], dns |-> d, now |-> t,
     saved |-> FALSE, ret |-> FALSE, checked |-> FALSE, healthy |-> FALSE,
     attempted |-> "none", write_ok |-> FALSE]

\* The points of process_health_check at which a signal may be delivered:
\* before the read, after update_state, after update_dns_record returned
\* True (or the provider applied the request) and before the state is set.
Points == {"read", "probe", "write"}

\* process_health_check up to the point where the signal handler's sys.exit
\* unwinds it: SystemExit is not an Exception, nothing catches it.
process_health_check_interrupted(s, d, t, resp, point) ==
    LET s0 == [s EXCEPT !.current_ip = d]
        hc == ping_with_latency(resp, t + 1)
        s1 == update_state(s0, hc)
        target == IF should_failover(s1, hc) THEN "backup"
                  ELSE IF should_restore(s1, hc) THEN "primary"
                  ELSE "none"
    IN  IF point = "read" THEN
            [state |-> s, dns |-> d, now |-> t, checked |-> FALSE,
             healthy |-> FALSE, attempted |-> "none", write_ok |-> FALSE]
        ELSE IF point = "probe" \/ target = "none" THEN
            [state |-> s1, dns |-> d, now |-> t + 1, checked |-> TRUE,
             healthy |-> is_healthy(hc), attempted |-> "none",
             write_ok |-> FALSE]
        ELSE
            [state |-> s1,
             dns |-> IF target = "backup" THEN backup_ip ELSE primary_ip,
             now |-> t + 1, checked |-> TRUE, healthy |-> is_healthy(hc),
             attempted |-> target, write_ok |-> TRUE]

\* A failed save_state falling back on what the file holds.
save_state_failed_reloads(s, f) ==
    [state |-> load_state(f, TRUE).state, file |-> f, raised |-> FALSE]

\* save_state when open or json.dump raises: the except clause of lines
\* 331-332 logs the error; the state and the file are what they were.
save_state_failed(s, f) ==
    [state |-> s, file |-> f, raised |-> FALSE]

\* signal_handler of monitor_loop leaving the state file as it is.
signal_handler_unsaved(s, f, saveOk) ==
    [running |-> FALSE, file |-> f]

\* signal_handler of monitor_loop: running = False, save_state(), sys.exit(0).
signal_handler(s, f, saveOk) ==
    [running |-> FALSE, file |-> IF saveOk THEN save_state(s) ELSE f]

\* The iteration's try/except letting the exception end the loop.
cycle_guard_propagates(raised) ==
    IF raised THEN "down" ELSE "run"

\* The try/except Exception of the iteration: whether or not
\* process_health_check raised, the loop goes on.
cycle_guard(raised) ==
    "run"

\* The file after a save_state that was cut short by the end of the
\* process: before open(..., 'w') the old file, after it a cut document.
save_state_cut(f) == {f, CutFile}

----------------------------------------------------------------------------
\* Startup reconciliation, run by the constructor on the loaded state.

\* The choice of the startup target preferring the backup.
startup_target_prefers_backup(primary_healthy, backup_healthy) ==
    IF backup_healthy THEN backup_ip ELSE primary_ip

\* target_ip of intelligent_startup when one of the two is healthy: the
\* primary if it is healthy, else the backup.
startup_target(primary_healthy, backup_healthy) ==
    IF primary_healthy THEN primary_ip ELSE backup_ip

\* The record already at the target with the loaded flag left alone.
startup_in_place_keeps_flag(s, d) ==
    [s EXCEPT !.current_ip = d]

\* The record is already at the target (lines 222-226): the state is made
\* to match the record.
startup_in_place(s, d) ==
    [s EXCEPT !.current_ip = d, !.is_failed_over = (d = backup_ip)]

\* The early return of intelligent_startup with the counters reset.
startup_returns_resets(s, d, t, probed) ==
    [state |-> [s EXCEPT !.consecutive_failures = 0,
                         !.consecutive_successes = 0],
     dns |-> d, now |-> t, saved |-> FALSE,
     checked |-> probed, healthy |-> FALSE, bhealthy |-> FALSE,
     attempted |-> "none", write_ok |-> FALSE, reconciled |-> FALSE]

\* The early returns of intelligent_startup: the record could not be read
\* (no probe was made), or both probes were unhealthy.
startup_returns(s, d, t, probed) ==
    [state |-> s, dns |-> d, now |-> t, saved |-> FALSE,
     checked |-> probed, healthy |-> FALSE, bhealthy |-> FALSE,
     attempted |-> "none", write_ok |-> FALSE, reconciled |-> FALSE]

intelligent_startup(s, d, t, readOk, presp, bresp, writeOk) ==
    IF ~readOk THEN startup_returns(s, d, t, FALSE)
    ELSE
        LET primary_health == ping_with_latency(presp, t + 1)
            backup_health == ping_with_latency(bresp, t + 2)
            primary_healthy ==
                primary_health.success
                /\ (~Truthy(primary_health.latency_ms)
                    \/ primary_health.latency_ms <= latency_threshold_ms)
            backup_healthy ==
                backup_health.success
                /\ (~Truthy(backup_health.latency_ms)
                    \/ backup_health.latency_ms <= latency_threshold_ms)
            target_ip == startup_target(primary_healthy, backup_healthy)
            which == IF target_ip = primary_ip THEN "primary" ELSE "backup"
        IN  IF ~primary_healthy /\ ~backup_healthy THEN
                startup_returns(s, d, t + 2, TRUE)
            ELSE IF d # target_ip THEN
                IF writeOk THEN
                    [state |->
                        [s EXCEPT !.current_ip = target_ip,
                                  !.is_failed_over = (target_ip = backup_ip),
                                  !.consecutive_failures = 0,
                                  !.consecutive_successes = 0,
                                  !.last_restore =
                                      IF target_ip = primary_ip
                                      THEN t + 3 ELSE @,
                                  !.last_failover =
                                      IF target_ip = primary_ip
                                      THEN @ ELSE t + 3],
                     dns |-> target_ip, now |-> t + 3, saved |-> TRUE,
                     checked |-> TRUE, healthy |-> primary_healthy,
                     bhealthy |-> backup_healthy,
                     attempted |-> which, write_ok |-> TRUE,
                     reconciled |-> TRUE]
                ELSE
                    [state |-> s, dns |-> d, now |-> t + 2, saved |-> FALSE,
                     checked |-> TRUE, healthy |-> primary_healthy,
                     bhealthy |-> backup_healthy,
                     attempted |-> which, write_ok |-> FALSE,
                     reconciled |-> TRUE]
            ELSE
                [state |-> startup_in_place(s, d),
                 dns |-> d, now |-> t + 2, saved |-> FALSE,
                 checked |-> TRUE, healthy |-> primary_healthy,
                     bhealthy |-> backup_healthy,
                 attempted |-> "none", write_ok |-> FALSE,
                 reconciled |-> TRUE]

----------------------------------------------------------------------------
\* The manual overrides.

\* manual_failover committing the failover whether or not the write succeeded.
manual_failover_unwritten(s, d, t, readOk, writeOk) ==
    IF s.is_failed_over THEN
        [state |-> s, dns |-> d, now |-> t, saved |-> FALSE, ret |-> FALSE,
         read |-> FALSE, attempted |-> "none", write_ok |-> FALSE]
    ELSE IF ~readOk THEN
        [state |-> s, dns |-> d, now |-> t, saved |-> FALSE, ret |-> FALSE,
         read |-> TRUE, attempted |-> "none", write_ok |-> FALSE]
    ELSE
        [state |-> [s EXCEPT !.is_failed_over = TRUE,
                             !.last_failover = t + 1,
                             !.current_ip = backup_ip],
         dns |-> IF writeOk THEN backup_ip ELSE d, now |-> t + 1,
         saved |-> TRUE, ret |-> writeOk,
         read |-> TRUE, attempted |-> "backup", write_ok |-> writeOk]

manual_failover(s, d, t, readOk, writeOk) ==
    IF s.is_failed_over THEN
        [state |-> s, dns |-> d, now |-> t, saved |-> FALSE, ret |-> FALSE,
         read |-> FALSE, attempted |-> "none", write_ok |-> FALSE]
    ELSE IF ~readOk THEN
        [state |-> s, dns |-> d, now |-> t, saved |-> FALSE, ret |-> FALSE,
         read |-> TRUE, attempted |-> "none", write_ok |-> FALSE]
    ELSE IF writeOk THEN
        [state |-> [s EXCEPT !.is_failed_over = TRUE,
                             !.last_failover = t + 1,
                             !.current_ip = backup_ip],
         dns |-> backup_ip, now |-> t + 1, saved |-> TRUE, ret |-> TRUE,
         read |-> TRUE, attempted |-> "backup", write_ok |-> TRUE]
    ELSE
        [state |-> s, dns |-> d, now |-> t, saved |-> FALSE, ret |-> FALSE,
         read |-> TRUE, attempted |-> "backup", write_ok |-> FALSE]

manual_restore(s, d, t, readOk, writeOk) ==
    IF ~s.is_failed_over THEN
        [state |-> s, dns |-> d, now |-> t, saved |-> FALSE, ret |-> FALSE,
         read |-> FALSE, attempted |-> "none", write_ok |-> FALSE]
    ELSE IF ~readOk THEN
        [state |-> s, dns |-> d, now |-> t, saved |-> FALSE, ret |-> FALSE,
         read |-> TRUE, attempted |-> "none", write_ok |-> FALSE]
    ELSE IF writeOk THEN
        [state |-> [s EXCEPT !.is_failed_over = FALSE,
                             !.last_restore = t + 1,
                             !.current_ip = primary_ip,
                             !.consecutive_successes = 0],
         dns |-> primary_ip, now |-> t + 1, saved |-> TRUE, ret |-> TRUE,
         read |-> TRUE, attempted |-> "primary", write_ok |-> TRUE]
    ELSE
        [state |-> s, dns |-> d, now |-> t, saved |-> FALSE, ret |-> FALSE,
         read |-> TRUE, attempted |-> "primary", write_ok |-> FALSE]

----------------------------------------------------------------------------
\* History variables.  They record what an observer of the engine has seen;
\* no operation of the engine reads them.
\*   trailH, trailU  consecutive healthy (unhealthy) checks up to the last one
\*   entryH          healthy checks made since the engine last entered the
\*                   failed-over state
\*   entryU          consecutive unhealthy checks made since the engine last
\*                   entered the primary-active state
\*   paValid, paRun  the engine has been primary-active with
\*                   consecutive_failures = 0 and has stayed primary-active
\*                   through check cycles only since; the unhealthy checks
\*                   made since
\*   foValid, foRun  the engine has failed over automatically and has stayed
\*                   failed over through check cycles only since; the
\*                   consecutive healthy checks made since
\*   entryFO         how the engine last entered the failed-over state:
\*                   "cycle", "manual_failover" or "construct"
\*   entryPA         how the engine last entered the primary-active state:
\*                   "cycle", "manual_restore" or "construct"
\*   pending         the write ("backup" or "primary") that failed in the
\*                   last completed check cycle, if one did
\*   restoreOwed     a restore write failed in a check cycle and no completed
\*                   cycle since has had a healthy check
\*   noWriteFailed   no write to the provider has failed so far
\*   made            every check appended to health_history, in order, after
\*                   the history the engine was constructed with

\* What get_status reports of the engine's state, in the order it reads the
\* fields (the timestamps as it formats them).
Snapshot(s) ==
    [is_failed_over |-> s.is_failed_over,
     consecutive_failures |-> s.consecutive_failures,
     consecutive_successes |-> s.consecutive_successes,
     last_failover |-> IF s.last_failover # None
                       THEN isoformat(s.last_failover) ELSE JsonNull,
     last_restore |-> IF s.last_restore # None
                      THEN isoformat(s.last_restore) ELSE JsonNull,
     health_checks_total |-> Len(s.health_history)]

StatusFields ==
    <<"is_failed_over", "consecutive_failures", "consecutive_successes",
      "last_failover", "last_restore", "health_checks_total">>

\* The current_ip of get_status taken from the engine's state.
status_current_ip_cached(s, readOk, d) ==
    s.current_ip

\* The current_ip of get_status (lines 689 and 693): the content of the
\* record get_dns_record has just read, "unknown" when it returned None.
status_current_ip(s, readOk, d) ==
    IF readOk THEN d ELSE "unknown"

\* No get_status call in flight.  at: the field the call reads next (0: no
\* call, Len(StatusFields) + 1: the call has returned snap); boundary: the
\* snapshot of the engine's state at the last cycle boundary; cands: the
\* snapshots of the states at the cycle boundaries since the call began;
\* current_ip: the current_ip of the call.
NoStatus ==
    [at |-> 0, snap |-> Snapshot(DefaultState),
     boundary |-> Snapshot(DefaultState), cands |-> {}, current_ip |-> ""]

NoObs ==
    [trailH |-> 0, trailU |-> 0, entryH |-> 0, entryU |-> 0,
     paValid |-> FALSE, paRun |-> 0, foValid |-> FALSE, foRun |-> 0,
     entryFO |-> "none", entryPA |-> "none",
     pending |-> "none", restoreOwed |-> FALSE, noWriteFailed |-> TRUE,
     made |-> <<>>]

\* The observer after a step: e is the event of the step, s the engine's
\* state before it (the loaded state, for a construction) and s2 after it.
Observe(o, e, s, s2) ==
    LET op == e.op
        checked == e.op = "cycle" /\ e.checked
        healthy == e.healthy
        failedWrite == e.attempted # "none" /\ ~e.write_ok
        enteredFO == ~s.is_failed_over /\ s2.is_failed_over
        enteredPA == s.is_failed_over /\ ~s2.is_failed_over
        anchor == ~s2.is_failed_over /\ s2.consecutive_failures = 0
        paKeep == /\ o.paValid /\ op = "cycle"
                  /\ ~s.is_failed_over /\ ~s2.is_failed_over
        foStart == op = "cycle" /\ enteredFO
        foKeep == /\ o.foValid /\ op = "cycle"
                  /\ s.is_failed_over /\ s2.is_failed_over
    IN  [trailH |-> IF checked THEN (IF healthy THEN o.trailH + 1 ELSE 0)
                    ELSE o.trailH,
         trailU |-> IF checked THEN (IF healthy THEN 0 ELSE o.trailU + 1)
                    ELSE o.trailU,
         entryH |-> IF enteredFO THEN 0
                    ELSE IF checked /\ healthy THEN o.entryH + 1
                    ELSE o.entryH,
         entryU |-> IF enteredPA THEN 0
                    ELSE IF checked THEN (IF healthy THEN 0 ELSE o.entryU + 1)
                    ELSE o.entryU,
         paValid |-> anchor \/ paKeep,
         paRun |-> IF anchor \/ ~paKeep THEN 0
                   ELSE IF checked THEN o.paRun + 1 ELSE o.paRun,
         foValid |-> foStart \/ foKeep,
         foRun |-> IF foStart \/ ~foKeep THEN 0
                   ELSE IF checked THEN (IF healthy THEN o.foRun + 1 ELSE 0)
                   ELSE o.foRun,
         entryFO |-> IF enteredFO THEN op ELSE o.entryFO,
         entryPA |-> IF enteredPA THEN op ELSE o.entryPA,
         pending |-> IF op # "cycle" THEN "none"
                     ELSE IF failedWrite THEN e.attempted
                     ELSE IF checked THEN "none"
                     ELSE o.pending,
         restoreOwed |-> IF op # "cycle" THEN FALSE
                         ELSE IF failedWrite THEN e.attempted = "primary"
                         ELSE IF checked /\ healthy THEN FALSE
                         ELSE o.restoreOwed,
         noWriteFailed |-> o.noWriteFailed /\ ~failedWrite,
         made |-> IF op = "construct" THEN s2.health_history
                  ELSE IF checked
                       THEN Append(o.made,
                                   s2.health_history[Len(s2.health_history)])
                  ELSE o.made]

\* The web front end before main starts the monitor thread: monitor_status
\* as the module defines it.
NoApp == [running |-> FALSE, error |-> "None", monitor_thread |-> "unstarted"]

\* No probe of the primary was made in the step.
NoProbe == [http |-> [kind |-> "none", status |-> 0],
            https |-> [kind |-> "none", status |-> 0], latency |-> None]

NoEvent ==
    [op |-> "none", read |-> FALSE, checked |-> FALSE, healthy |-> FALSE,
     attempted |-> "none", write_ok |-> FALSE, was_failed_over |-> FALSE,
     was_failures |-> 0, was_successes |-> 0, reconciled |-> FALSE,
     ret |-> FALSE, exit |-> None,
     raised |-> FALSE, save_ok |-> TRUE, bhealthy |-> FALSE,
     probe |-> NoProbe,
     status_code |-> None]

\* The provider faults a step used: a failed read, a failed write.
Faults(readTried, readOk, attempted, write_ok) ==
    (IF readTried /\ ~readOk THEN 1 ELSE 0)
    + (IF attempted # "none" /\ ~write_ok THEN 1 ELSE 0)

\* The results get_dns_record may have.
ReadResults == IF left.reads_fail THEN BOOLEAN ELSE {TRUE}

\* Whether process_health_check raises; whether save_state's write works.
RaiseResults == IF left.cycle_faults THEN BOOLEAN ELSE {FALSE}
SaveResults == IF left.cycle_faults THEN BOOLEAN ELSE {TRUE}

----------------------------------------------------------------------------
\* The operations.

\* __init__: load the configuration, load the state file, then reconcile
\* with the DNS record.  load_config raises on a missing or placeholder
\* required value, and then nothing else of __init__ runs.
\* load_state runs before setup_logging; when it raises, so does __init__
\* and there is no engine.
ConstructEngine ==
    /\ pc = "down"
    /\ UNCHANGED status
    /\ \E c \in {load_config(left.env)} :
       IF c.raised THEN
         /\ ev' = [NoEvent EXCEPT !.op = "config_raised"]
         /\ UNCHANGED <<state, dns, file, now, pc, left, obs>>
       ELSE
       \E l \in {load_state(file, FALSE)} :
       IF l.raised THEN
         /\ ev' = [NoEvent EXCEPT !.op = "construct_raised"]
         /\ UNCHANGED <<state, dns, file, now, pc, left, obs>>
       ELSE
       \E readOk \in ReadResults, presp \in left.responses,
          bresp \in left.responses, writeOk \in BOOLEAN :
       \E s \in {l.state} :
       \E r \in {intelligent_startup(s, dns, now, readOk, presp, bresp,
                                     writeOk)} :
         LET f == Faults(TRUE, readOk, r.attempted, r.write_ok)
             e == [op |-> "construct", read |-> readOk,
                   checked |-> r.checked, healthy |-> r.healthy,
                   attempted |-> r.attempted, write_ok |-> r.write_ok,
                   was_failed_over |-> s.is_failed_over,
                   was_failures |-> s.consecutive_failures,
                   was_successes |-> s.consecutive_successes,
                   reconciled |-> r.reconciled,
                   ret |-> FALSE, exit |-> None,
                   raised |-> FALSE, save_ok |-> TRUE, bhealthy |-> r.bhealthy,
                   probe |-> IF r.checked THEN presp ELSE NoProbe,
                   status_code |-> None]
         IN  /\ f <= left.ops
             /\ (r.attempted = "none" => writeOk)
             /\ state' = r.state
             /\ dns' = r.dns
             /\ now' = r.now
             /\ file' = IF r.saved THEN save_state(r.state) ELSE file
             /\ pc' = "run"
             /\ left' = [left EXCEPT !.ops = @ - f]
             /\ ev' = e
             /\ obs' = Observe(obs, e, s, r.state)

\* __init__ in a process of its own: the command line and the service.
Construct ==
    /\ ConstructEngine
    /\ UNCHANGED app

\* One iteration of monitor_loop: the check cycle, then save_state.
monitor_loop ==
    /\ pc = "run"
    /\ UNCHANGED <<status, app>>
    /\ \E readOk \in ReadResults, resp \in left.responses,
          writeOk \in BOOLEAN, raised \in RaiseResults,
          saveOk \in SaveResults :
       \E r \in {IF raised THEN cycle_raised(state, dns, now)
                 ELSE process_health_check(state, dns, now, readOk, resp,
                                           writeOk)} :
         LET f == Faults(TRUE, readOk, r.attempted, r.write_ok)
                  + (IF raised THEN 1 ELSE 0) + (IF saveOk THEN 0 ELSE 1)
             e == [op |-> "cycle", read |-> readOk,
                   checked |-> r.checked, healthy |-> r.healthy,
                   attempted |-> r.attempted, write_ok |-> r.write_ok,
                   was_failed_over |-> state.is_failed_over,
                   was_failures |-> state.consecutive_failures,
                   was_successes |-> state.consecutive_successes,
                   reconciled |-> FALSE,
                   ret |-> r.ret, exit |-> None,
                   raised |-> raised, save_ok |-> saveOk, bhealthy |-> FALSE,
                   probe |-> IF r.checked THEN resp ELSE NoProbe,
                   status_code |-> None]
         IN  /\ f <= left.ops
             /\ (raised => readOk)
             /\ (r.checked => left.checks > 0)
             /\ (r.checked /\ ~r.healthy => left.unhealthy > 0)
             /\ (r.attempted = "none" => writeOk)
             /\ state' = IF saveOk THEN r.state
                         ELSE save_state_failed(r.state, file).state
             /\ dns' = r.dns
             /\ now' = r.now
             /\ file' = IF saveOk THEN save_state(r.state)
                        ELSE save_state_failed(r.state, file).file
             /\ pc' = IF ~saveOk /\ save_state_failed(r.state, file).raised
                      THEN "down" ELSE cycle_guard(raised)
             /\ left' = [left EXCEPT
                            !.ops = @ - f,
                            !.checks = IF r.checked THEN @ - 1 ELSE @,
                            !.unhealthy = IF r.checked /\ ~r.healthy
                                          THEN @ - 1 ELSE @]
             /\ ev' = e
             /\ obs' = Observe(obs, e, state, r.state)

ManualFailover ==
    /\ pc = "run"
    /\ UNCHANGED <<status, app>>
    /\ \E readOk \in ReadResults, writeOk \in BOOLEAN :
       \E r \in {manual_failover(state, dns, now, readOk, writeOk)} :
         LET f == Faults(r.read, readOk, r.attempted, r.write_ok)
             e == [op |-> "manual_failover", read |-> r.read /\ readOk,
                   checked |-> FALSE, healthy |-> FALSE,
                   attempted |-> r.attempted, write_ok |-> r.write_ok,
                   was_failed_over |-> state.is_failed_over,
                   was_failures |-> state.consecutive_failures,
                   was_successes |-> state.consecutive_successes,
                   reconciled |-> FALSE,
                   ret |-> r.ret, exit |-> None,
                   raised |-> FALSE, save_ok |-> TRUE, bhealthy |-> FALSE,
                   probe |-> NoProbe,
                   status_code |-> None]
         IN  /\ f + 1 <= left.ops
             /\ (r.attempted = "none" => writeOk)
             /\ (~r.read => readOk)
             /\ state' = r.state
             /\ dns' = r.dns
             /\ now' = r.now
             /\ file' = IF r.saved THEN save_state(r.state) ELSE file
             /\ pc' = pc
             /\ left' = [left EXCEPT !.ops = @ - (f + 1)]
             /\ ev' = e
             /\ obs' = Observe(obs, e, state, r.state)

ManualRestore ==
    /\ pc = "run"
    /\ UNCHANGED <<status, app>>
    /\ \E readOk \in ReadResults, writeOk \in BOOLEAN :
       \E r \in {manual_restore(state, dns, now, readOk, writeOk)} :
         LET f == Faults(r.read, readOk, r.attempted, r.write_ok)
             e == [op |-> "manual_restore", read |-> r.read /\ readOk,
                   checked |-> FALSE, healthy |-> FALSE,
                   attempted |-> r.attempted, write_ok |-> r.write_ok,
                   was_failed_over |-> state.is_failed_over,
                   was_failures |-> state.consecutive_failures,
                   was_successes |-> state.consecutive_successes,
                   reconciled |-> FALSE,
                   ret |-> r.ret, exit |-> None,
                   raised |-> FALSE, save_ok |-> TRUE, bhealthy |-> FALSE,
                   probe |-> NoProbe,
                   status_code |-> None]
         IN  /\ f + 1 <= left.ops
             /\ (r.attempted = "none" => writeOk)
             /\ (~r.read => readOk)
             /\ state' = r.state
             /\ dns' = r.dns
             /\ now' = r.now
             /\ file' = IF r.saved THEN save_state(r.state) ELSE file
             /\ pc' = pc
             /\ left' = [left EXCEPT !.ops = @ - (f + 1)]
             /\ ev' = e
             /\ obs' = Observe(obs, e, state, r.state)

\* A shutdown signal between two cycles: the handler saves the state and
\* the process exits; the engine and its in-memory state are gone.
Exit ==
    /\ pc = "run"
    /\ UNCHANGED <<status, app>>
    /\ left.ops > 0
    /\ \E saveOk \in SaveResults :
       \E h \in {signal_handler(state, file, saveOk)} :
         /\ pc' = IF h.running THEN "run" ELSE "down"
         /\ file' = h.file
         /\ ev' = [NoEvent EXCEPT !.op = "exit",
                                  !.was_failed_over = state.is_failed_over,
                                  !.save_ok = saveOk]
    /\ state' = DefaultState
    /\ obs' = [obs EXCEPT !.paValid = FALSE, !.foValid = FALSE,
                          !.pending = "none", !.restoreOwed = FALSE]
    /\ left' = [left EXCEPT !.ops = @ - 1]
    /\ UNCHANGED <<dns, now>>

\* A shutdown signal during process_health_check: the handler saves the state
\* as it is at that point and sys.exit(0) ends the cycle and the process.
\* state keeps what the engine's state was at that moment.
Interrupt ==
    /\ pc = "run"
    /\ UNCHANGED <<status, app>>
    /\ left.ops > 0
    /\ \E resp \in left.responses, point \in Points,
          saveOk \in SaveResults :
       \E r \in {process_health_check_interrupted(state, dns, now, resp,
                                                  point)} :
       \E h \in {signal_handler(r.state, file, saveOk)} :
         LET e == [op |-> "interrupt", read |-> point # "read",
                   checked |-> r.checked, healthy |-> r.healthy,
                   attempted |-> r.attempted, write_ok |-> r.write_ok,
                   was_failed_over |-> state.is_failed_over,
                   was_failures |-> state.consecutive_failures,
                   was_successes |-> state.consecutive_successes,
                   reconciled |-> FALSE,
                   ret |-> FALSE, exit |-> 0,
                   raised |-> FALSE, save_ok |-> saveOk, bhealthy |-> FALSE,
                   probe |-> IF r.checked THEN resp ELSE NoProbe,
                   status_code |-> None]
         IN  /\ (r.checked => left.checks > 0)
             /\ (r.checked /\ ~r.healthy => left.unhealthy > 0)
             /\ (point = "write" => r.attempted # "none")
             /\ state' = r.state
             /\ dns' = r.dns
             /\ now' = r.now
             /\ file' = h.file
             /\ pc' = IF h.running THEN "run" ELSE "down"
             /\ left' = [left EXCEPT
                            !.ops = @ - 1,
                            !.checks = IF r.checked THEN @ - 1 ELSE @,
                            !.unhealthy = IF r.checked /\ ~r.healthy
                                          THEN @ - 1 ELSE @]
             /\ ev' = e
             /\ obs' = [Observe(obs, e, state, r.state)
                           EXCEPT !.paValid = FALSE, !.foValid = FALSE]

\* The process is killed while save_state is writing the engine's state.
KilledInSave ==
    /\ pc = "run"
    /\ UNCHANGED <<status, app>>
    /\ left.ops > 0
    /\ file' \in save_state_cut(file)
    /\ pc' = "down"
    /\ state' = DefaultState
    /\ ev' = [NoEvent EXCEPT !.op = "killed",
                             !.was_failed_over = state.is_failed_over]
    /\ obs' = [obs EXCEPT !.paValid = FALSE, !.foValid = FALSE,
                          !.pending = "none", !.restoreOwed = FALSE]
    /\ left' = [left EXCEPT !.ops = @ - 1]
    /\ UNCHANGED <<dns, now>>

\* main with the command "failover" or "restore", run as a second process
\* while the monitor loop runs: it constructs its own engine from the state
\* file, runs the override on it, saves, and exits.  The loop's engine, state,
\* is not touched.
cli_override ==
    /\ pc = "run"
    /\ UNCHANGED <<status, app>>
    /\ left.ops > 0
    /\ \E command \in {"failover", "restore"}, presp \in left.responses,
          bresp \in left.responses :
       \E l \in {load_state(file, FALSE)} :
       \E r1 \in {intelligent_startup(l.state, dns, now, TRUE, presp, bresp,
                                      TRUE)} :
       \E r \in {IF command = "failover"
                 THEN manual_failover(r1.state, r1.dns, r1.now, TRUE, TRUE)
                 ELSE manual_restore(r1.state, r1.dns, r1.now, TRUE, TRUE)} :
         LET e == [op |-> "override", read |-> r.read,
                   checked |-> FALSE, healthy |-> FALSE,
                   attempted |-> r.attempted, write_ok |-> r.write_ok,
                   was_failed_over |-> r1.state.is_failed_over,
                   was_failures |-> r1.state.consecutive_failures,
                   was_successes |-> r1.state.consecutive_successes,
                   reconciled |-> FALSE,
                   ret |-> r.ret, exit |-> IF r.ret THEN 0 ELSE 1,
                   raised |-> FALSE, save_ok |-> TRUE, bhealthy |-> FALSE,
                   probe |-> NoProbe,
                   status_code |-> None]
         IN  /\ ~l.raised
             /\ dns' = r.dns
             /\ now' = r.now
             /\ file' = IF r.saved THEN save_state(r.state)
                        ELSE IF r1.saved THEN save_state(r1.state)
                        ELSE file
             /\ left' = [left EXCEPT !.ops = @ - 1]
             /\ ev' = e
             /\ UNCHANGED <<state, pc, obs>>

\* A request to the provider that gets no answer.  requests waits for the
\* answer as long as its timeout argument says: with a number the call ends
\* with requests.exceptions.Timeout, with None it never returns.
requests_waits(timeout) ==
    IF timeout = None THEN "pending" ELSE "Timeout"

\* The timeout argument of requests.get in get_dns_record and of
\* requests.put in update_dns_record: none is passed.
ProviderTimeout == None

\* One iteration of monitor_loop in which the provider does not answer the
\* read of the record, or the write of a transition that fired.
monitor_loop_silent ==
    /\ pc = "run"
    /\ UNCHANGED <<status, app>>
    /\ left.ops > 0
    /\ \E call \in {"read", "write"}, resp \in left.responses :
       \E w \in {requests_waits(ProviderTimeout)} :
       \E r \in {process_health_check(state, dns, now, call # "read", resp,
                                      FALSE)} :
         LET e == [op |-> "cycle_silent", read |-> call # "read",
                   checked |-> r.checked, healthy |-> r.healthy,
                   attempted |-> r.attempted, write_ok |-> FALSE,
                   was_failed_over |-> state.is_failed_over,
                   was_failures |-> state.consecutive_failures,
                   was_successes |-> state.consecutive_successes,
                   reconciled |-> FALSE,
                   ret |-> r.ret, exit |-> None,
                   raised |-> FALSE, save_ok |-> w # "pending",
                   bhealthy |-> FALSE,
                   probe |-> IF r.checked THEN resp ELSE NoProbe,
                   status_code |-> None]
         IN  /\ (call = "write" => r.attempted # "none")
             /\ (r.checked => left.checks > 0)
             /\ (r.checked /\ ~r.healthy => left.unhealthy > 0)
             /\ state' = r.state
             /\ dns' = r.dns
             /\ now' = r.now
             /\ file' = IF w = "pending" THEN file ELSE save_state(r.state)
             /\ pc' = IF w = "pending" THEN "blocked" ELSE pc
             /\ left' = [left EXCEPT
                            !.ops = @ - 1,
                            !.checks = IF r.checked THEN @ - 1 ELSE @,
                            !.unhealthy = IF r.checked /\ ~r.healthy
                                          THEN @ - 1 ELSE @]
             /\ ev' = e
             /\ obs' = Observe(obs, e, state, r.state)

\* An engine used by two threads, step by step: monitor_loop runs in the
\* main thread (signal.signal at lines 649-650 works nowhere else) and a
\* second thread calls get_status, as StatusHandler.send_status of app.py
\* does.  The assignments that commit a transition are separate steps of
\* the monitor thread, named by their line: 551-554 for a failover, 588-591
\* for a restore.
FailoverLines == <<"551", "552", "553", "554">>
RestoreLines == <<"588", "589", "590", "591">>
CommitLines ==
    {FailoverLines[i] : i \in 1..Len(FailoverLines)}
    \cup {RestoreLines[i] : i \in 1..Len(RestoreLines)}

\* The line after a commit line; "run" after the last of its block.
NextLine(line) ==
    LET lines == IF \E i \in 1..Len(FailoverLines) : FailoverLines[i] = line
                 THEN FailoverLines ELSE RestoreLines
        i == CHOOSE k \in 1..Len(lines) : lines[k] = line
    IN  IF i = Len(lines) THEN "run" ELSE lines[i + 1]

\* The assignment at a commit line; t is what datetime.now() returns there.
assign(line, s, t) ==
    IF line = "551" THEN [s EXCEPT !.is_failed_over = TRUE]
    ELSE IF line = "552" THEN [s EXCEPT !.last_failover = t]
    ELSE IF line = "553" THEN [s EXCEPT !.current_ip = backup_ip]
    ELSE IF line = "554" THEN [s EXCEPT !.consecutive_failures = 0]
    ELSE IF line = "588" THEN [s EXCEPT !.is_failed_over = FALSE]
    ELSE IF line = "589" THEN [s EXCEPT !.last_restore = t]
    ELSE IF line = "590" THEN [s EXCEPT !.current_ip = primary_ip]
    ELSE [s EXCEPT !.consecutive_successes = 0]

ReadsClock(line) == line \in {"552", "589"}

\* The snapshot of the engine's state at the last cycle boundary.
LastBoundary == IF pc = "run" THEN Snapshot(state) ELSE status.boundary

\* A get_status call in flight sees the cycle boundary at state s.
AtBoundary(st, s) ==
    IF st.at \in 1..Len(StatusFields)
    THEN [st EXCEPT !.cands = @ \cup {Snapshot(s)}]
    ELSE st

\* One iteration of monitor_loop in the monitor thread, up to the first
\* assignment of a commit (update_dns_record has returned True), or to its
\* end, save_state included, when the cycle commits nothing.
cycle_to_commit ==
    /\ pc = "run"
    /\ UNCHANGED app
    /\ \E readOk \in ReadResults, resp \in left.responses,
          writeOk \in BOOLEAN :
       \E r \in {process_health_check(state, dns, now, readOk, resp,
                                      writeOk)} :
         LET f == Faults(TRUE, readOk, r.attempted, r.write_ok)
             commits == r.attempted # "none" /\ r.write_ok
             s1 == update_state([state EXCEPT !.current_ip = dns],
                                ping_with_latency(resp, now + 1))
             e == [op |-> IF commits THEN "cycle_part" ELSE "cycle",
                   read |-> readOk,
                   checked |-> r.checked, healthy |-> r.healthy,
                   attempted |-> r.attempted, write_ok |-> r.write_ok,
                   was_failed_over |-> state.is_failed_over,
                   was_failures |-> state.consecutive_failures,
                   was_successes |-> state.consecutive_successes,
                   reconciled |-> FALSE,
                   ret |-> r.ret, exit |-> None,
                   raised |-> FALSE, save_ok |-> TRUE, bhealthy |-> FALSE,
                   probe |-> IF r.checked THEN resp ELSE NoProbe,
                   status_code |-> None]
         IN  /\ f <= left.ops
             /\ (r.checked => left.checks > 0)
             /\ (r.checked /\ ~r.healthy => left.unhealthy > 0)
             /\ (r.attempted = "none" => writeOk)
             /\ dns' = r.dns
             /\ IF commits
                THEN /\ state' = s1
                     /\ now' = now + 1
                     /\ file' = file
                     /\ pc' = IF r.attempted = "backup"
                              THEN FailoverLines[1] ELSE RestoreLines[1]
                     /\ status' = [status EXCEPT
                                      !.boundary = Snapshot(state)]
                ELSE /\ state' = r.state
                     /\ now' = r.now
                     /\ file' = save_state(r.state)
                     /\ pc' = pc
                     /\ status' = AtBoundary(status, r.state)
             /\ left' = [left EXCEPT
                            !.ops = @ - f,
                            !.checks = IF r.checked THEN @ - 1 ELSE @,
                            !.unhealthy = IF r.checked /\ ~r.healthy
                                          THEN @ - 1 ELSE @]
             /\ ev' = e
             /\ obs' = obs

\* The monitor thread runs one assignment of the commit; after the last one
\* the cycle ends and monitor_loop saves the state.
commit_line ==
    /\ pc \in CommitLines
    /\ \E t \in {IF ReadsClock(pc) THEN now + 1 ELSE now} :
       \E s \in {assign(pc, state, t)} :
         /\ state' = s
         /\ now' = t
         /\ pc' = NextLine(pc)
         /\ file' = IF NextLine(pc) = "run" THEN save_state(s) ELSE file
         /\ status' = IF NextLine(pc) = "run" THEN AtBoundary(status, s)
                      ELSE status
    /\ ev' = [NoEvent EXCEPT !.op = "commit"]
    /\ UNCHANGED <<dns, left, obs, app>>

\* The status thread: get_status reads the record at the provider, then the
\* fields of self.state one after the other; no lock is taken.
get_status ==
    /\ pc # "down"
    /\ IF status.at \in {0, Len(StatusFields) + 1} THEN
         /\ left.ops > 0
         /\ left' = [left EXCEPT !.ops = @ - 1]
         /\ \E readOk \in BOOLEAN :
              /\ status' = [at |-> 1, snap |-> Snapshot(DefaultState),
                            boundary |-> status.boundary,
                            cands |-> {LastBoundary},
                            current_ip |->
                                status_current_ip(state, readOk, dns)]
              /\ ev' = [NoEvent EXCEPT !.op = "get_status",
                                       !.read = readOk]
       ELSE
         /\ left' = left
         /\ status' = [status EXCEPT
                !.snap[StatusFields[status.at]] =
                    Snapshot(state)[StatusFields[status.at]],
                !.at = @ + 1]
         /\ ev' = [NoEvent EXCEPT !.op = "get_status_reads"]
    /\ UNCHANGED <<state, dns, file, now, pc, obs, app>>

\* The commands of main on the engine it has constructed.  Each ends the
\* process with sys.exit; state keeps what the engine's state was at that
\* moment, and nothing reads it until the next construction replaces it.

\* main, "failover": manual_failover, then exit 0 if it returned True, else 1.
CliFailover ==
    /\ pc = "run"
    /\ UNCHANGED <<status, app>>
    /\ \E readOk \in ReadResults, writeOk \in BOOLEAN :
       \E r \in {manual_failover(state, dns, now, readOk, writeOk)} :
         LET f == Faults(r.read, readOk, r.attempted, r.write_ok)
             e == [op |-> "cli_failover", read |-> r.read /\ readOk,
                   checked |-> FALSE, healthy |-> FALSE,
                   attempted |-> r.attempted, write_ok |-> r.write_ok,
                   was_failed_over |-> state.is_failed_over,
                   was_failures |-> state.consecutive_failures,
                   was_successes |-> state.consecutive_successes,
                   reconciled |-> FALSE,
                   ret |-> r.ret, exit |-> IF r.ret THEN 0 ELSE 1,
                   raised |-> FALSE, save_ok |-> TRUE, bhealthy |-> FALSE,
                   probe |-> NoProbe,
                   status_code |-> None]
         IN  /\ f + 1 <= left.ops
             /\ (r.attempted = "none" => writeOk)
             /\ (~r.read => readOk)
             /\ state' = r.state
             /\ dns' = r.dns
             /\ now' = r.now
             /\ file' = IF r.saved THEN save_state(r.state) ELSE file
             /\ pc' = "down"
             /\ left' = [left EXCEPT !.ops = @ - (f + 1)]
             /\ ev' = e
             /\ obs' = [Observe(obs, e, state, r.state) EXCEPT
                           !.paValid = FALSE, !.foValid = FALSE]

\* main, "restore": manual_restore, then exit 0 if it returned True, else 1.
CliRestore ==
    /\ pc = "run"
    /\ UNCHANGED <<status, app>>
    /\ \E readOk \in ReadResults, writeOk \in BOOLEAN :
       \E r \in {manual_restore(state, dns, now, readOk, writeOk)} :
         LET f == Faults(r.read, readOk, r.attempted, r.write_ok)
             e == [op |-> "cli_restore", read |-> r.read /\ readOk,
                   checked |-> FALSE, healthy |-> FALSE,
                   attempted |-> r.attempted, write_ok |-> r.write_ok,
                   was_failed_over |-> state.is_failed_over,
                   was_failures |-> state.consecutive_failures,
                   was_successes |-> state.consecutive_successes,
                   reconciled |-> FALSE,
                   ret |-> r.ret, exit |-> IF r.ret THEN 0 ELSE 1,
                   raised |-> FALSE, save_ok |-> TRUE, bhealthy |-> FALSE,
                   probe |-> NoProbe,
                   status_code |-> None]
         IN  /\ f + 1 <= left.ops
             /\ (r.attempted = "none" => writeOk)
             /\ (~r.read => readOk)
             /\ state' = r.state
             /\ dns' = r.dns
             /\ now' = r.now
             /\ file' = IF r.saved THEN save_state(r.state) ELSE file
             /\ pc' = "down"
             /\ left' = [left EXCEPT !.ops = @ - (f + 1)]
             /\ ev' = e
             /\ obs' = [Observe(obs, e, state, r.state) EXCEPT
                           !.paValid = FALSE, !.foValid = FALSE]

\* main, "check": one process_health_check, which saves the state itself
\* only after a transition, then exit 0 if it returned True, else 1.
CliCheck ==
    /\ pc = "run"
    /\ UNCHANGED <<status, app>>
    /\ \E readOk \in ReadResults, resp \in left.responses,
          writeOk \in BOOLEAN :
       \E r \in {process_health_check(state, dns, now, readOk, resp,
                                      writeOk)} :
         LET f == Faults(TRUE, readOk, r.attempted, r.write_ok)
             e == [op |-> "cli_check", read |-> readOk,
                   checked |-> r.checked, healthy |-> r.healthy,
                   attempted |-> r.attempted, write_ok |-> r.write_ok,
                   was_failed_over |-> state.is_failed_over,
                   was_failures |-> state.consecutive_failures,
                   was_successes |-> state.consecutive_successes,
                   reconciled |-> FALSE,
                   ret |-> r.ret, exit |-> IF r.ret THEN 0 ELSE 1,
                   raised |-> FALSE, save_ok |-> TRUE, bhealthy |-> FALSE,
                   probe |-> IF r.checked THEN resp ELSE NoProbe,
                   status_code |-> None]
         IN  /\ f + 1 <= left.ops
             /\ (r.checked => left.checks > 0)
             /\ (r.checked /\ ~r.healthy => left.unhealthy > 0)
             /\ (r.attempted = "none" => writeOk)
             /\ state' = r.state
             /\ dns' = r.dns
             /\ now' = r.now
             /\ file' = IF r.saved THEN save_state(r.state) ELSE file
             /\ pc' = "down"
             /\ left' = [left EXCEPT
                            !.ops = @ - (f + 1),
                            !.checks = IF r.checked THEN @ - 1 ELSE @,
                            !.unhealthy = IF r.checked /\ ~r.healthy
                                          THEN @ - 1 ELSE @]
             /\ ev' = e
             /\ obs' = [Observe(obs, e, state, r.state) EXCEPT
                           !.paValid = FALSE, !.foValid = FALSE]

----------------------------------------------------------------------------
\* Spec: no state file, any record content, every operation and fault,
\* over a short horizon.

Init ==
    /\ state = DefaultState
    /\ dns \in {primary_ip, backup_ip, other_ip}
    /\ file = NoFile
    /\ now = 0
    /\ pc = "down"
    /\ left = [checks |-> MaxChecks, unhealthy |-> MaxChecks,
               ops |-> MaxOps, responses |-> Responses,
               reads_fail |-> TRUE, cycle_faults |-> FALSE,
               env |-> Configured]
    /\ ev = NoEvent
    /\ obs = NoObs
    /\ status = NoStatus
    /\ app = NoApp

Next ==
    \/ Construct
    \/ monitor_loop
    \/ ManualFailover
    \/ ManualRestore
    \/ Exit

Spec == Init /\ [][Next]_vars

\* SpecMonitor: one engine running its monitor loop, long enough for an
\* automatic failover followed by a full stability period.

InitMonitor ==
    /\ state = DefaultState
    /\ dns = primary_ip
    /\ file = NoFile
    /\ now = 0
    /\ pc = "down"
    /\ left = [checks |-> DeepChecks, unhealthy |-> DeepUnhealthy,
               ops |-> DeepFaults,
               responses |-> {FastResponse, NoResponse},
               reads_fail |-> TRUE, cycle_faults |-> FALSE,
               env |-> Configured]
    /\ ev = NoEvent
    /\ obs = NoObs
    /\ status = NoStatus
    /\ app = NoApp

NextMonitor ==
    \/ Construct
    \/ monitor_loop

SpecMonitor == InitMonitor /\ [][NextMonitor]_vars

\* SpecOverride: the same engine and horizon, with the manual overrides.

NextOverride ==
    \/ Construct
    \/ monitor_loop
    \/ ManualFailover
    \/ ManualRestore

SpecOverride == InitMonitor /\ [][NextOverride]_vars

\* SpecHistory: one engine whose monitor loop runs past the capacity of
\* health_history.

InitHistory ==
    /\ state = DefaultState
    /\ dns \in {primary_ip, backup_ip, other_ip}
    /\ file = NoFile
    /\ now = 0
    /\ pc = "down"
    /\ left = [checks |-> HistoryChecks, unhealthy |-> HistoryUnhealthy,
               ops |-> HistoryUnhealthy,
               responses |-> {FastResponse, NoResponse},
               reads_fail |-> TRUE, cycle_faults |-> FALSE,
               env |-> Configured]
    /\ ev = NoEvent
    /\ obs = NoObs
    /\ status = NoStatus
    /\ app = NoApp

SpecHistory == InitHistory /\ [][NextMonitor]_vars

\* SpecRetry: one engine whose monitor loop keeps running.  The primary is
\* down from the start and stays down until the engine has failed over; it
\* may recover then, and from then on its checks may go either way.  The
\* provider fails RetryFaults calls at most, and the horizon leaves room
\* for every retry: failure_threshold checks to fail over, success_threshold
\* checks to restore, one more for each call the provider fails, and
\* RetryBlips unhealthy checks besides.

PrimaryDown == left.responses = {NoResponse}

PrimaryRecovers ==
    /\ PrimaryDown
    /\ state.is_failed_over /\ dns = backup_ip
    /\ left' = [left EXCEPT !.responses = {FastResponse, NoResponse}]
    /\ UNCHANGED <<state, dns, file, now, pc, ev, obs, status, app>>

InitRetry ==
    /\ state = DefaultState
    /\ dns = primary_ip
    /\ file = NoFile
    /\ now = 0
    /\ pc = "down"
    /\ left = [checks |-> failure_threshold + success_threshold
                            + RetryFaults + RetryBlips,
               unhealthy |-> failure_threshold + RetryFaults + RetryBlips,
               ops |-> RetryFaults,
               responses |-> {NoResponse},
               reads_fail |-> TRUE, cycle_faults |-> FALSE,
               env |-> Configured]
    /\ ev = NoEvent
    /\ obs = NoObs
    /\ status = NoStatus
    /\ app = NoApp

NextRetry ==
    \/ Construct
    \/ monitor_loop
    \/ PrimaryRecovers

SpecRetry ==
    /\ InitRetry
    /\ [][NextRetry]_vars
    /\ WF_vars(Construct)
    /\ WF_vars(monitor_loop)

\* SpecRecover: one engine whose monitor loop keeps running, started with
\* the record at backup_ip.  The primary fails RecoverBlips checks at most
\* and is healthy ever after; the provider fails RecoverFaults calls at most.
\* The horizon leaves room for a full stability period after every blip and
\* for one more check per fault.

InitRecover ==
    /\ state = DefaultState
    /\ dns = backup_ip
    /\ file = NoFile
    /\ now = 0
    /\ pc = "down"
    /\ left = [checks |-> (RecoverBlips + 1) * success_threshold
                            + RecoverFaults,
               unhealthy |-> RecoverBlips,
               ops |-> RecoverFaults,
               responses |-> {FastResponse, NoResponse},
               reads_fail |-> TRUE, cycle_faults |-> FALSE,
               env |-> Configured]
    /\ ev = NoEvent
    /\ obs = NoObs
    /\ status = NoStatus
    /\ app = NoApp

NextRecover ==
    \/ Construct
    \/ monitor_loop

SpecRecover ==
    /\ InitRecover
    /\ [][NextRecover]_vars
    /\ WF_vars(Construct)
    /\ WF_vars(monitor_loop)

\* SpecCli: the commands of main, each on an engine constructed for it,
\* with a monitor that may run in between.

InitCli ==
    /\ state = DefaultState
    /\ dns \in {primary_ip, backup_ip, other_ip}
    /\ file = NoFile
    /\ now = 0
    /\ pc = "down"
    /\ left = [checks |-> CliChecks, unhealthy |-> CliChecks,
               ops |-> CliOps,
               responses |-> {FastResponse, NoResponse},
               reads_fail |-> TRUE, cycle_faults |-> FALSE,
               env |-> Configured]
    /\ ev = NoEvent
    /\ obs = NoObs
    /\ status = NoStatus
    /\ app = NoApp

NextCli ==
    \/ Construct
    \/ monitor_loop
    \/ Exit
    \/ CliFailover
    \/ CliRestore
    \/ CliCheck

SpecCli == InitCli /\ [][NextCli]_vars

\* The monitor loop and the commands of main run beside it on the same
\* state file.
InitShared ==
    /\ state = DefaultState
    /\ dns \in {primary_ip, backup_ip, other_ip}
    /\ file = NoFile
    /\ now = 0
    /\ pc = "down"
    /\ left = [checks |-> SharedChecks, unhealthy |-> SharedChecks,
               ops |-> SharedOps, responses |-> {FastResponse, NoResponse},
               reads_fail |-> FALSE, cycle_faults |-> FALSE,
               env |-> Configured]
    /\ ev = NoEvent
    /\ obs = NoObs
    /\ status = NoStatus
    /\ app = NoApp

NextShared ==
    \/ Construct
    \/ monitor_loop
    \/ cli_override

SpecShared == InitShared /\ [][NextShared]_vars

\* The monitor loop with a provider that may leave a request unanswered.
InitSilent ==
    /\ state = DefaultState
    /\ dns \in {primary_ip, backup_ip, other_ip}
    /\ file = NoFile
    /\ now = 0
    /\ pc = "down"
    /\ left = [checks |-> SilentChecks, unhealthy |-> SilentChecks,
               ops |-> SilentOps, responses |-> {FastResponse, NoResponse},
               reads_fail |-> TRUE, cycle_faults |-> FALSE,
               env |-> Configured]
    /\ ev = NoEvent
    /\ obs = NoObs
    /\ status = NoStatus
    /\ app = NoApp

NextSilent ==
    \/ Construct
    \/ monitor_loop
    \/ monitor_loop_silent

SpecSilent == InitSilent /\ [][NextSilent]_vars

\* The engine with monitor_loop in the main thread and one get_status call
\* at a time in a second thread.
FailedOverFile ==
    save_state([DefaultState EXCEPT
        !.current_ip = backup_ip,
        !.is_failed_over = TRUE,
        !.consecutive_successes = success_threshold - 1,
        !.last_failover = 0])

InitStatus ==
    /\ state = DefaultState
    /\ dns \in {primary_ip, backup_ip}
    /\ file \in {NoFile, FailedOverFile}
    /\ now = 0
    /\ pc = "down"
    /\ left = [checks |-> StatusChecks, unhealthy |-> StatusChecks,
               ops |-> StatusOps, responses |-> {FastResponse, NoResponse},
               reads_fail |-> FALSE, cycle_faults |-> FALSE,
               env |-> Configured]
    /\ ev = NoEvent
    /\ obs = NoObs
    /\ status = NoStatus
    /\ app = NoApp

NextStatus ==
    \/ Construct
    \/ cycle_to_commit
    \/ commit_line
    \/ get_status

SpecStatus == InitStatus /\ [][NextStatus]_vars

\* SpecProbe: one engine and its loop over a short horizon, probing servers
\* that answer at the latency threshold and around it, with client and
\* server errors, on https only, with timeouts and with exceptions.

AtThreshold ==
    [http |-> Answer(200), https |-> Answer(200),
     latency |-> latency_threshold_ms]
OverThreshold ==
    [http |-> Answer(200), https |-> Answer(200),
     latency |-> latency_threshold_ms + 1]
Instant == [http |-> Answer(301), https |-> Answer(200), latency |-> 0]
NotFound == [http |-> Answer(404), https |-> Answer(200), latency |-> 40]
ServerError == [http |-> Answer(500), https |-> Answer(200), latency |-> 40]
HttpsOnly == [http |-> Refused, https |-> Answer(200), latency |-> 40]
HttpsBroken == [http |-> Broken, https |-> Answer(503), latency |-> 40]
HttpTimeout ==
    [http |-> TimedOut, https |-> Answer(200), latency |-> ProbeTimeout]
HttpsTimeout ==
    [http |-> Refused, https |-> TimedOut, latency |-> ProbeTimeout]
AllBroken == [http |-> Broken, https |-> Broken, latency |-> 10]

EdgeResponses ==
    {AtThreshold, OverThreshold, Instant, NotFound, ServerError, HttpsOnly,
     HttpsBroken, HttpTimeout, HttpsTimeout, AllBroken, NoResponse}

InitProbe ==
    /\ state = DefaultState
    /\ dns \in {primary_ip, backup_ip}
    /\ file = NoFile
    /\ now = 0
    /\ pc = "down"
    /\ left = [checks |-> ProbeChecks, unhealthy |-> ProbeChecks,
               ops |-> 0, responses |-> EdgeResponses,
               reads_fail |-> FALSE, cycle_faults |-> FALSE,
               env |-> Configured]
    /\ ev = NoEvent
    /\ obs = NoObs
    /\ status = NoStatus
    /\ app = NoApp

NextProbe ==
    \/ Construct
    \/ monitor_loop

SpecProbe == InitProbe /\ [][NextProbe]_vars

\* SpecConfig: the constructor in every environment, with and without a
\* readable state file, and the loop of the engines that were constructed.

EnvValues == {"", "your_", "your_cloudflare_value_here", "your", "value"}

Environments ==
    UNION {[names -> EnvValues] : names \in SUBSET {"CF_API_TOKEN",
                                                    "CF_ZONE_ID"}}

InitConfig ==
    /\ state = DefaultState
    /\ dns \in {primary_ip, backup_ip}
    /\ file \in {NoFile, TextFile}
    /\ now = 0
    /\ pc = "down"
    /\ \E env \in Environments :
          left = [checks |-> ConfigChecks, unhealthy |-> ConfigChecks,
                  ops |-> 0, responses |-> {FastResponse, NoResponse},
                  reads_fail |-> FALSE, cycle_faults |-> FALSE,
                  env |-> env]
    /\ ev = NoEvent
    /\ obs = NoObs
    /\ status = NoStatus
    /\ app = NoApp

NextConfig ==
    \/ Construct
    \/ monitor_loop

SpecConfig == InitConfig /\ [][NextConfig]_vars

\* SpecStartup: construction from every kind of saved state against every
\* record content, with provider faults, and the first cycles after it.

StaleFile ==
    save_state([DefaultState EXCEPT
        !.current_ip = other_ip,
        !.consecutive_failures = failure_threshold - 1,
        !.last_restore = 0])

InitStartup ==
    /\ state = DefaultState
    /\ dns \in {primary_ip, backup_ip, other_ip}
    /\ file \in {NoFile, FailedOverFile, StaleFile}
    /\ now = 0
    /\ pc = "down"
    /\ left = [checks |-> StartupChecks, unhealthy |-> StartupChecks,
               ops |-> StartupOps, responses |-> Responses,
               reads_fail |-> TRUE, cycle_faults |-> FALSE,
               env |-> Configured]
    /\ ev = NoEvent
    /\ obs = NoObs
    /\ status = NoStatus
    /\ app = NoApp

NextStartup ==
    \/ Construct
    \/ monitor_loop

SpecStartup == InitStartup /\ [][NextStartup]_vars

----------------------------------------------------------------------------
\* The simple command line tool, CloudflareFailover of cloudflare_failover.py.
\* It keeps no state: every command reads the record and acts on it.

cf_primary_ip == "20.125.26.115"
cf_backup_ip == "4.155.81.101"

\* failover_to_backup writing without looking at the content of the record.
failover_to_backup_always_writes(d, readOk, writeOk) ==
    IF ~readOk THEN
        [dns |-> d, ret |-> FALSE, read |-> FALSE, attempted |-> "none",
         write_ok |-> FALSE]
    ELSE IF writeOk THEN
        [dns |-> cf_backup_ip, ret |-> TRUE, read |-> TRUE,
         attempted |-> "backup", write_ok |-> TRUE]
    ELSE
        [dns |-> d, ret |-> FALSE, read |-> TRUE, attempted |-> "backup",
         write_ok |-> FALSE]

\* failover_to_backup: False when get_record_id found no record, True
\* without a write when the record is at backup_ip already, and else what
\* update_dns_record returned.
failover_to_backup(d, readOk, writeOk) ==
    IF ~readOk THEN
        [dns |-> d, ret |-> FALSE, read |-> FALSE, attempted |-> "none",
         write_ok |-> FALSE]
    ELSE IF d = cf_backup_ip THEN
        [dns |-> d, ret |-> TRUE, read |-> TRUE, attempted |-> "none",
         write_ok |-> FALSE]
    ELSE IF writeOk THEN
        [dns |-> cf_backup_ip, ret |-> TRUE, read |-> TRUE,
         attempted |-> "backup", write_ok |-> TRUE]
    ELSE
        [dns |-> d, ret |-> FALSE, read |-> TRUE, attempted |-> "backup",
         write_ok |-> FALSE]

\* restore_to_primary, the same towards primary_ip.
restore_to_primary(d, readOk, writeOk) ==
    IF ~readOk THEN
        [dns |-> d, ret |-> FALSE, read |-> FALSE, attempted |-> "none",
         write_ok |-> FALSE]
    ELSE IF d = cf_primary_ip THEN
        [dns |-> d, ret |-> TRUE, read |-> TRUE, attempted |-> "none",
         write_ok |-> FALSE]
    ELSE IF writeOk THEN
        [dns |-> cf_primary_ip, ret |-> TRUE, read |-> TRUE,
         attempted |-> "primary", write_ok |-> TRUE]
    ELSE
        [dns |-> d, ret |-> FALSE, read |-> TRUE, attempted |-> "primary",
         write_ok |-> FALSE]

\* What subprocess.run of ping does: it returns with code 0 ("ok") or with
\* another code ("down"), or it raises TimeoutExpired ("timeout") or
\* another exception ("error", for instance no ping executable).
Pings == {"ok", "down", "timeout", "error"}

\* check_and_failover failing over on every exception.
check_and_failover_on_any_error(d, ping, readOk, writeOk) ==
    IF ping = "ok" THEN restore_to_primary(d, readOk, writeOk)
    ELSE failover_to_backup(d, readOk, writeOk)

\* check_and_failover: one ping decides, nothing is remembered.
check_and_failover(d, ping, readOk, writeOk) ==
    IF ping = "ok" THEN restore_to_primary(d, readOk, writeOk)
    ELSE IF ping \in {"down", "timeout"}
         THEN failover_to_backup(d, readOk, writeOk)
    ELSE [dns |-> d, ret |-> FALSE, read |-> FALSE, attempted |-> "none",
          write_ok |-> FALSE]

\* One command of main.  read: the record was read; a read or a write that
\* fails uses up one of the provider's faults; raised: the ping raised an
\* exception other than TimeoutExpired.
SimpleCommand(name, ping, r, readTried, readOk) ==
    LET f == Faults(readTried, readOk, r.attempted, r.write_ok)
    IN  /\ pc = "down"
        /\ left.checks > 0
        /\ f <= left.ops
        /\ dns' = r.dns
        /\ now' = now + 1
        /\ left' = [left EXCEPT !.checks = @ - 1, !.ops = @ - f]
        /\ ev' = [NoEvent EXCEPT
                     !.op = name, !.read = r.read,
                     !.checked = ping \in {"ok", "down", "timeout"},
                     !.healthy = (ping = "ok"),
                     !.raised = (ping = "error"),
                     !.attempted = r.attempted, !.write_ok = r.write_ok,
                     !.ret = r.ret, !.exit = IF r.ret THEN 0 ELSE 1]
        /\ UNCHANGED <<state, file, pc, obs, status, app>>

SimpleFailover ==
    \E readOk \in BOOLEAN, writeOk \in BOOLEAN :
    \E r \in {failover_to_backup(dns, readOk, writeOk)} :
        /\ (r.attempted = "none" => writeOk)
        /\ SimpleCommand("failover", "none", r, TRUE, readOk)

SimpleRestore ==
    \E readOk \in BOOLEAN, writeOk \in BOOLEAN :
    \E r \in {restore_to_primary(dns, readOk, writeOk)} :
        /\ (r.attempted = "none" => writeOk)
        /\ SimpleCommand("restore", "none", r, TRUE, readOk)

SimpleCheck ==
    \E ping \in Pings, readOk \in BOOLEAN, writeOk \in BOOLEAN :
    \E r \in {check_and_failover(dns, ping, readOk, writeOk)} :
        /\ (r.attempted = "none" => writeOk)
        /\ (ping = "error" => readOk)
        /\ SimpleCommand("check", ping, r, ping # "error", readOk)

\* SpecSimple: SimpleCalls commands of the simple tool, one after the other,
\* on any record content, with a provider that fails SimpleFaults calls.

InitSimple ==
    /\ state = DefaultState
    /\ dns \in {cf_primary_ip, cf_backup_ip, other_ip}
    /\ file = NoFile
    /\ now = 0
    /\ pc = "down"
    /\ left = [checks |-> SimpleCalls, unhealthy |-> 0,
               ops |-> SimpleFaults, responses |-> {},
               reads_fail |-> TRUE, cycle_faults |-> FALSE,
               env |-> Configured]
    /\ ev = NoEvent
    /\ obs = NoObs
    /\ status = NoStatus
    /\ app = NoApp

NextSimple ==
    \/ SimpleFailover
    \/ SimpleRestore
    \/ SimpleCheck

SpecSimple == InitSimple /\ [][NextSimple]_vars

----------------------------------------------------------------------------
\* The web front end (app.py).  main starts start_monitor in a thread of its
\* own and serves the HTTP requests in the main thread.

\* The thread the interpreter starts in, and the one threading.Thread gives
\* start_monitor.
MainThread == "MainThread"
MonitorThread == "Thread-1"

\* signal.signal installs a handler in the main thread of the interpreter
\* only; called in any other thread it raises ValueError.
signal_signal(thread) ==
    [raised |-> thread # MainThread,
     error |-> IF thread # MainThread
               THEN "signal only works in main thread of the main interpreter"
               ELSE "None"]

\* monitor_loop from its first line to its while loop, in the given thread:
\* the banner is logged, self.running set, the two handlers installed.
monitor_loop_entered(thread) == signal_signal(thread)

\* The status code of GET /health.
health_status_code(running) == IF running THEN 200 ELSE 503

\* start_monitor up to its call of monitor_loop: the engine is constructed,
\* then monitor_status['running'] set; an exception of __init__ ends the
\* thread in the except clause.
start_monitor ==
    /\ app.monitor_thread = "start_monitor"
    /\ ConstructEngine
    /\ app' = IF ev'.op = "construct"
              THEN [running |-> TRUE, error |-> "None",
                    monitor_thread |-> "monitor_loop"]
              ELSE [running |-> FALSE, error |-> ev'.op,
                    monitor_thread |-> "ended"]

\* start_monitor from its call of monitor_loop on.  An exception of
\* monitor_loop ends the thread in the except clause; otherwise the thread
\* runs the cycles of the while loop, as the action monitor_loop does.
start_monitor_loop ==
    /\ app.monitor_thread = "monitor_loop"
    /\ \E r \in {monitor_loop_entered(MonitorThread)} :
         /\ app' = IF r.raised
                   THEN [running |-> FALSE, error |-> r.error,
                         monitor_thread |-> "ended"]
                   ELSE [app EXCEPT !.monitor_thread = "cycles"]
         /\ ev' = [NoEvent EXCEPT !.op = "monitor_loop",
                                  !.raised = r.raised]
    /\ UNCHANGED <<state, dns, file, now, pc, left, obs, status>>

\* GET /health, served in the main thread at any moment.
send_health_check ==
    /\ left.checks > 0
    /\ left' = [left EXCEPT !.checks = @ - 1]
    /\ ev' = [NoEvent EXCEPT
                 !.op = "health",
                 !.status_code = health_status_code(app.running)]
    /\ UNCHANGED <<state, dns, file, now, pc, obs, status, app>>

\* SpecWeb: the web front end from the start of its monitor thread, with or
\* without its configuration, on any record content, answering WebRequests
\* requests for /health.
InitWeb ==
    /\ state = DefaultState
    /\ dns \in {primary_ip, backup_ip, other_ip}
    /\ file \in {NoFile, FailedOverFile}
    /\ now = 0
    /\ pc = "down"
    /\ \E env \in {Configured, [CF_API_TOKEN |-> "token"]} :
          left = [checks |-> WebRequests, unhealthy |-> 0,
                  ops |-> WebFaults, responses |-> Responses,
                  reads_fail |-> TRUE, cycle_faults |-> FALSE,
                  env |-> env]
    /\ ev = NoEvent
    /\ obs = NoObs
    /\ status = NoStatus
    /\ app = [NoApp EXCEPT !.monitor_thread = "start_monitor"]

NextWeb ==
    \/ start_monitor
    \/ start_monitor_loop
    \/ send_health_check

SpecWeb == InitWeb /\ [][NextWeb]_vars

\* The monitor process over its lifetime: state files save_state did not
\* write, failing saves, exceptions, signals and kills.
OversizedFile ==
    save_state([DefaultState EXCEPT
        !.current_ip = primary_ip,
        !.consecutive_successes = 1,
        !.health_history =
            [i \in 1..(HistoryCapacity + Excess) |->
                ping_with_latency(FastResponse, 0)]])

InitProcess ==
    /\ state = DefaultState
    /\ dns \in {primary_ip, backup_ip}
    /\ file \in {NoFile, TextFile, ForeignFile, OversizedFile}
    /\ now = 0
    /\ pc = "down"
    /\ left = [checks |-> ProcChecks, unhealthy |-> ProcChecks,
               ops |-> ProcOps, responses |-> {FastResponse, NoResponse},
               reads_fail |-> TRUE, cycle_faults |-> TRUE,
               env |-> Configured]
    /\ ev = NoEvent
    /\ obs = NoObs
    /\ status = NoStatus
    /\ app = NoApp

NextProcess ==
    \/ Construct
    \/ monitor_loop
    \/ Exit
    \/ Interrupt
    \/ KilledInSave

SpecProcess == InitProcess /\ [][NextProcess]_vars

----------------------------------------------------------------------------
\* The claims.  ev' describes the step taken, so a formula about a step
\* reads the state before it unprimed and ev', state', dns' after it.

CycleDone == ev'.op = "cycle" /\ ev'.checked
NoWriteFailed == ev'.attempted # "none" => ev'.write_ok

\* C1: from PRIMARY_ACTIVE with consecutive_failures = 0, with reads and
\* writes succeeding, a cycle fails over iff its check and the
\* failure_threshold - 1 checks before it were unhealthy; the failover writes
\* backup_ip, sets is_failed_over and leaves consecutive_failures = 0, and no
\* cycle fails over again while failed over.
C1_FailoverAtThreshold ==
    [][/\ (CycleDone /\ NoWriteFailed /\ obs.paValid /\ ~state.is_failed_over)
          => /\ state'.is_failed_over
                <=> (~ev'.healthy /\ obs.paRun + 1 >= failure_threshold)
             /\ state'.is_failed_over
                => /\ ev'.attempted = "backup"
                   /\ dns' = backup_ip
                   /\ state'.consecutive_failures = 0
       /\ (CycleDone /\ state.is_failed_over) => ev'.attempted # "backup"
      ]_vars

C1_Witness ==
    /\ ev.op = "cycle" /\ ev.attempted = "backup" /\ ev.write_ok
    /\ ~ev.was_failed_over /\ state.is_failed_over
    /\ dns = backup_ip
    /\ state.consecutive_failures = 0
    /\ obs.trailU = failure_threshold
    /\ obs.trailH = 0

\* C2: after an automatic failover the 1st to 19th consecutive healthy checks
\* do not restore and the 20th does (its write succeeding): it writes
\* primary_ip, clears is_failed_over and resets consecutive_successes.
C2_RestoreAtTwentieth ==
    [][(CycleDone /\ NoWriteFailed /\ ev'.healthy /\ obs.foValid
        /\ state.is_failed_over)
       => /\ ~state'.is_failed_over <=> obs.foRun + 1 >= success_threshold
          /\ ~state'.is_failed_over
             => /\ ev'.attempted = "primary"
                /\ dns' = primary_ip
                /\ state'.consecutive_successes = 0
      ]_vars

C2_Witness ==
    /\ success_threshold = 20
    /\ ev.op = "cycle" /\ ev.attempted = "primary" /\ ev.write_ok
    /\ ev.was_failed_over /\ ~state.is_failed_over
    /\ obs.entryFO = "cycle"
    /\ dns = primary_ip
    /\ state.consecutive_successes = 0
    /\ obs.trailH = success_threshold

\* C3: while failed over, an unhealthy check sets consecutive_successes to 0
\* and restores nothing in its cycle, and a cycle attempts a restore only
\* when the last success_threshold checks were all healthy.
C3_UnhealthyRestartsClock ==
    [][CycleDone
       => /\ (state.is_failed_over /\ ~ev'.healthy)
             => /\ state'.consecutive_successes = 0
                /\ ev'.attempted # "primary"
                /\ state'.is_failed_over
          /\ ev'.attempted = "primary" => obs'.trailH >= success_threshold
      ]_vars

C3_Witness ==
    /\ ev.op = "cycle" /\ ev.checked /\ ~ev.healthy
    /\ ev.was_failed_over /\ state.is_failed_over
    /\ ev.was_successes > 0
    /\ state.consecutive_successes = 0

\* C4: after every entry into FAILED_OVER, by any path, an automatic restore
\* never happens before success_threshold healthy checks have been observed
\* after that entry.
C4_RestoreOnlyAfterStability ==
    (ev.op = "cycle" /\ ev.attempted = "primary")
    => obs.entryH >= success_threshold

\* C5: after every entry into PRIMARY_ACTIVE, by any path, an automatic
\* failover never happens before failure_threshold consecutive unhealthy
\* checks have been observed after that entry.
C5_FailoverOnlyAfterThreshold ==
    (ev.op = "cycle" /\ ev.attempted = "backup")
    => obs.entryU >= failure_threshold

\* C6: when the write of a due failover or restore fails, is_failed_over,
\* last_failover and last_restore keep their values of before the cycle and
\* the triggering counter is not reset.
C6_FailedWriteCommitsNothing ==
    [][(ev'.op = "cycle" /\ ev'.attempted # "none" /\ ~ev'.write_ok)
       => /\ state'.is_failed_over = state.is_failed_over
          /\ state'.last_failover = state.last_failover
          /\ state'.last_restore = state.last_restore
          /\ dns' = dns
          /\ ev'.attempted = "backup"
             => /\ state'.consecutive_failures = state.consecutive_failures + 1
                /\ state'.consecutive_failures >= failure_threshold
          /\ ev'.attempted = "primary"
             => /\ state'.consecutive_successes
                       = state.consecutive_successes + 1
                /\ state'.consecutive_successes >= success_threshold
      ]_vars

C6_Witness ==
    /\ ev.op = "cycle" /\ ev.attempted = "primary" /\ ~ev.write_ok
    /\ state.is_failed_over
    /\ state.consecutive_successes >= success_threshold
    /\ dns = backup_ip

\* C7 as stated: after a failover whose write failed, the next completed
\* cycle attempts the write again if its check is unhealthy; after a restore
\* whose write failed, the next cycle whose check is healthy attempts the
\* write again; and with the primary staying down and the provider failing
\* finitely often, a failed failover write leads to is_failed_over = true
\* with the record at backup_ip.
C7_RetriedAtNextHealthy ==
    /\ [][CycleDone
          => /\ (obs.pending = "backup" /\ ~ev'.healthy)
                => ev'.attempted = "backup"
             /\ (obs.restoreOwed /\ ev'.healthy)
                => ev'.attempted = "primary"
         ]_vars
    /\ (obs.pending = "backup")
       ~> ((state.is_failed_over /\ dns = backup_ip) \/ ~PrimaryDown)

\* C7, amended: after a failover whose write failed, the next completed
\* cycle attempts the write again if its check is unhealthy; after a restore
\* whose write failed, the next completed cycle attempts the write again if
\* its check is healthy (an unhealthy check in between restarts the
\* stability period); and with the primary staying down and the provider
\* failing finitely often, a failed failover write leads to
\* is_failed_over = true with the record at backup_ip.
C7_RetriedNextCycle ==
    /\ [][CycleDone
          => /\ (obs.pending = "backup" /\ ~ev'.healthy)
                => ev'.attempted = "backup"
             /\ (obs.pending = "primary" /\ ev'.healthy)
                => ev'.attempted = "primary"
         ]_vars
    /\ (obs.pending = "backup")
       ~> ((state.is_failed_over /\ dns = backup_ip) \/ ~PrimaryDown)

C7_Witness ==
    /\ ev.op = "cycle" /\ ev.attempted = "backup" /\ ev.write_ok
    /\ ev.was_failures >= failure_threshold
    /\ ~obs.noWriteFailed
    /\ PrimaryDown
    /\ state.is_failed_over
    /\ dns = backup_ip

\* C8: consecutive_failures and consecutive_successes are never both
\* nonzero, in the engine's state and in the state file.
C8_CountersExclusive ==
    /\ ~(state.consecutive_failures # 0 /\ state.consecutive_successes # 0)
    /\ ~(file.data.consecutive_failures # 0
         /\ file.data.consecutive_successes # 0)

C8_Witness ==
    /\ ev.op \in {"manual_failover", "manual_restore", "construct"}
    /\ ev.attempted # "none" /\ ev.write_ok
    /\ ev.was_failures + ev.was_successes > 0

\* C9: health_history never holds more than 100 entries, and it holds the
\* most recent checks (all of them up to 100) in the order they were made.
LastN(q, n) == IF Len(q) <= n THEN q ELSE SubSeq(q, Len(q) - n + 1, Len(q))

C10_FlagMatchesCurrentIp ==
    (/\ pc = "run"
     /\ obs.noWriteFailed
     /\ \/ ev.op = "cycle" /\ ev.checked
        \/ ev.op \in {"manual_failover", "manual_restore"}
        \/ ev.op = "construct" /\ ev.reconciled
     /\ ev.attempted # "none" => ev.write_ok)
    => /\ state.is_failed_over => state.current_ip = backup_ip
       /\ ~state.is_failed_over => state.current_ip = primary_ip

\* C11 as stated: manual_failover while already failed over, and
\* manual_restore while not failed over, reads and writes nothing at the
\* provider, changes no state and saves nothing, and its result is not the
\* result of a failure: it returns other than False, and the command of main
\* running it exits with status 0.
AlreadyInState ==
    \/ /\ ev'.op \in {"manual_failover", "cli_failover"}
       /\ state.is_failed_over
    \/ /\ ev'.op \in {"manual_restore", "cli_restore"}
       /\ ~state.is_failed_over

C11_AlreadyInStateIsNoError ==
    [][AlreadyInState
       => /\ ~ev'.read
          /\ ev'.attempted = "none"
          /\ state' = state
          /\ dns' = dns
          /\ file' = file
          /\ ev'.ret
          /\ ev'.exit # None => ev'.exit = 0
      ]_vars

\* C12: a manual override that is not already in its target state goes to
\* the provider whatever the counters are; when its write succeeded it sets
\* is_failed_over, current_ip and its timestamp, the record holds the target
\* and the state file holds the new state; when the read or the write
\* failed, the state, the record and the state file are unchanged.
C12_ManualCommitsOnWrite ==
    [][ev'.op \in {"manual_failover", "manual_restore",
                   "cli_failover", "cli_restore"}
       => LET fo == ev'.op \in {"manual_failover", "cli_failover"}
              target == IF fo THEN backup_ip ELSE primary_ip
              written == ev'.attempted # "none" /\ ev'.write_ok
          IN  /\ (state.is_failed_over # fo /\ ev'.read)
                 => ev'.attempted = (IF fo THEN "backup" ELSE "primary")
              /\ written
                 => /\ state'.is_failed_over = fo
                    /\ state'.current_ip = target
                    /\ fo => state'.last_failover = now'
                    /\ ~fo => state'.last_restore = now'
                    /\ now' > now
                    /\ dns' = target
                    /\ file' = save_state(state')
                    /\ ev'.ret
              /\ ~written
                 => /\ state' = state
                    /\ dns' = dns
                    /\ file' = file
                    /\ ~ev'.ret
      ]_vars

C12_Witness ==
    /\ ev.op = "cli_failover"
    /\ ev.attempted = "backup" /\ ev.write_ok
    /\ ~ev.was_failed_over
    /\ ev.was_failures < failure_threshold
    /\ state.is_failed_over
    /\ state.current_ip = backup_ip
    /\ state.last_failover = now
    /\ file = save_state(state)

\* C13: a check cycle whose read of the record fails performs no probe and
\* no write and leaves every field of the state, and the record, unchanged.
C13_ReadFailureAbortsCycle ==
    [][(ev'.op \in {"cycle", "cli_check"} /\ ~ev'.read)
       => /\ ~ev'.checked
          /\ ev'.attempted = "none"
          /\ state' = state
          /\ dns' = dns
          /\ now' = now
      ]_vars

C13_Witness ==
    /\ ev.op = "cycle" /\ ~ev.read /\ ~ev.checked
    /\ pc = "run"
    /\ state.consecutive_failures > 0
    /\ Len(state.health_history) > 0

\* C14 as stated: after every check cycle that ran the probe, in the monitor
\* loop and in the "check" command, with or without a transition, the state
\* file holds the engine's state.
C14_PersistedAfterEveryCycle ==
    [][(ev'.op \in {"cycle", "cli_check"} /\ ev'.checked)
       => file' = save_state(state')
      ]_vars

\* C15 as stated: constructing the engine succeeds whatever the state file
\* is; when the file is missing, is not valid JSON or does not match the
\* MonitorState schema, the state the constructor starts from is the default
\* one (the state after construction is intelligent_startup of it).
Constructing == ev'.op \in {"construct", "construct_raised"}

C15_LoadStateNeverFails ==
    [][Constructing
       => /\ ev'.op = "construct"
          /\ pc' = "run"
          /\ (~file.exists \/ ~Parses(file))
             => \E readOk \in BOOLEAN, presp \in Responses,
                   bresp \in Responses, writeOk \in BOOLEAN :
                  state' = intelligent_startup(DefaultState, dns, now, readOk,
                                               presp, bresp, writeOk).state
      ]_vars

\* C16 as stated: when the process ended while save_state was writing, the
\* next construction of the engine succeeds.
C16_CutSaveNeverBreaksLoad ==
    [][(ev.op = "killed" /\ Constructing)
       => /\ ev'.op = "construct"
          /\ pc' = "run"
      ]_vars

\* C17 as stated: every state file written by save_state holds at most
\* HistoryCapacity history entries, whatever the file the state was loaded
\* from held.
C17_PersistedHistoryCapped ==
    [][(ev'.op \in {"construct", "cycle", "exit", "interrupt"}
        /\ file' # file /\ Parses(file'))
       => Len(file'.data.health_history) <= HistoryCapacity
      ]_vars

\* C18 as stated: a shutdown signal does not end a check cycle in flight;
\* the step in which the loop's process wrote the record (the write was
\* issued and applied) ends with the matching state: is_failed_over and
\* current_ip say what the record was set to.
C18_SignalNeverAbortsCycle ==
    [][(ev'.op \in {"cycle", "interrupt"}
        /\ ev'.attempted # "none" /\ ev'.write_ok)
       => /\ ev'.op = "cycle"
          /\ state'.is_failed_over = (ev'.attempted = "backup")
          /\ state'.current_ip = dns'
      ]_vars

\* C19: the step of a shutdown signal, between cycles or during one, leaves
\* the loop stopped and, unless the write of the file failed, the state file
\* holding the engine's state of that moment; the step after it is not a
\* check cycle of that loop.
Signalled(e) == e.op \in {"exit", "interrupt"}

C19_SignalStopsAndPersists ==
    [][/\ ev'.op = "exit"
          => /\ pc' = "down"
             /\ ev'.save_ok => file' = save_state(state)
       /\ ev'.op = "interrupt"
          => /\ pc' = "down"
             /\ ev'.save_ok => file' = save_state(state')
       /\ Signalled(ev) => ev'.op \notin {"cycle", "exit", "interrupt"}
      ]_vars

C19_Witness ==
    /\ ev.op = "exit" /\ ev.save_ok
    /\ pc = "down"
    /\ file.exists /\ Parses(file)
    /\ Len(file.data.health_history) > 0
    /\ left.checks > 0

\* C20: after a cycle, whatever failed in it (the probe, the read, the
\* write, the save, or process_health_check raising), the loop is running;
\* the loop stops running only in the step of a signal or a kill.
C20_FailuresNeverStopLoop ==
    [][/\ ev'.op = "cycle" => pc' = "run"
       /\ (pc = "run" /\ pc' # "run")
          => ev'.op \in {"exit", "interrupt", "killed"}
      ]_vars

C20_Witness ==
    /\ ev.op = "cycle"
    /\ ev.raised /\ ~ev.save_ok
    /\ pc = "run"
    /\ left.checks > 0

\* C21 as stated: a construction whose read of the record and whose write,
\* if one was needed, succeeded has probed both servers, leaves the record
\* at primary_ip when the primary probe was healthy, and leaves the record
\* at backup_ip only when the primary was unhealthy and the backup healthy.
StartupWentThrough ==
    /\ ev'.op = "construct"
    /\ ev'.read
    /\ ev'.attempted # "none" => ev'.write_ok

C21_StartupPrefersPrimary ==
    [][StartupWentThrough
       => /\ ev'.checked
          /\ ev'.healthy => dns' = primary_ip
          /\ dns' = backup_ip => (~ev'.healthy /\ ev'.bhealthy)
      ]_vars

\* C21 amended: as above, but the record is at backup_ip after startup only
\* when the primary was unhealthy and either the backup was healthy or the
\* record already held backup_ip (both unhealthy: the record is left as it
\* was); startup writes backup_ip only when the primary was unhealthy and the
\* backup healthy.
C21_StartupPrefersPrimaryOrKeeps ==
    [][StartupWentThrough
       => /\ ev'.checked
          /\ ev'.healthy => dns' = primary_ip
          /\ dns' = backup_ip
             => (~ev'.healthy /\ (ev'.bhealthy \/ dns = backup_ip))
          /\ ev'.attempted = "backup" => (~ev'.healthy /\ ev'.bhealthy)
          /\ (~ev'.healthy /\ ev'.bhealthy) => dns' = backup_ip
      ]_vars

C21_Witness ==
    /\ ev.op = "construct" /\ ev.read /\ ev.checked
    /\ ev.healthy
    /\ ev.attempted = "primary" /\ ev.write_ok
    /\ ev.was_failed_over
    /\ dns = primary_ip
    /\ ~state.is_failed_over

\* C22: a construction in which the record could not be read, or in which
\* both probes were unhealthy, issues no write, leaves the record as it was
\* and leaves the engine with the state load_state returned, field for
\* field, and the state file untouched.
C22_StartupLeavesStateAlone ==
    [][(ev'.op = "construct"
        /\ (~ev'.read \/ (ev'.checked /\ ~ev'.healthy /\ ~ev'.bhealthy)))
       => /\ ev'.attempted = "none"
          /\ dns' = dns
          /\ state' = load_state(file, FALSE).state
          /\ file' = file
          /\ ~ev'.read => ~ev'.checked
      ]_vars

C22_Witness ==
    /\ ev.op = "construct"
    /\ ev.read /\ ev.checked /\ ~ev.healthy /\ ~ev.bhealthy
    /\ state.consecutive_failures > 0
    /\ Len(state.health_history) > 0
    /\ file.exists
    /\ state = load_state(file, FALSE).state

\* C23 as stated: the values a get_status call has returned are the
\* values of one state the engine had at a cycle boundary during the call.
C23_StatusIsOneState ==
    status.at = Len(StatusFields) + 1 => status.snap \in status.cands

\* The commit run line by line ends in the state the whole cycle commits.
CommitLinesMatchCommitted ==
    [][/\ (pc = "554" /\ pc' = "run")
          => state' = failover_committed(state, state.last_failover)
       /\ (pc = "591" /\ pc' = "run")
          => state' = restore_committed(state, state.last_restore)
       /\ (pc \in CommitLines /\ pc' = "run") => file' = save_state(state')
      ]_vars

\* C24 as stated: a cycle in which the provider does not answer the read
\* or the write ends with the failure result (the cycle aborted, or the
\* transition not committed), the state saved and the loop running.
C24_SilentProviderIsFailure ==
    [][ev'.op = "cycle_silent"
       => /\ pc' = "run"
          /\ \/ ~ev'.read /\ state' = state
             \/ ev'.attempted # "none" /\ ~ev'.write_ok
          /\ file' = save_state(state')
      ]_vars

\* C25 as stated: when a command run beside the loop has committed and
\* saved its override, the save of the loop's next cycle, if that cycle
\* commits no transition of its own, leaves is_failed_over, last_failover
\* and last_restore in the state file as the override set them.
OverrideSaved(e) ==
    e.op = "override" /\ e.attempted # "none" /\ e.write_ok

C25_OverrideNeverLost ==
    [][(OverrideSaved(ev) /\ ev'.op = "cycle"
        /\ ~(ev'.attempted # "none" /\ ev'.write_ok))
       => /\ file'.data.is_failed_over = file.data.is_failed_over
          /\ file'.data.last_failover = file.data.last_failover
          /\ file'.data.last_restore = file.data.last_restore
      ]_vars

\* C26: a check cycle that ran the probe and in which neither rule fired
\* issues no write, leaves the record, is_failed_over, last_failover and
\* last_restore as they were, and changes the counters, health_history and
\* current_ip only (current_ip to the content of the record).
NoRuleFired ==
    /\ ev'.op \in {"cycle", "cli_check"}
    /\ ev'.checked
    /\ ev'.attempted = "none"

C26_NoTransitionFrame ==
    [][NoRuleFired
       => /\ dns' = dns
          /\ state'.is_failed_over = state.is_failed_over
          /\ state'.last_failover = state.last_failover
          /\ state'.last_restore = state.last_restore
          /\ state'.current_ip = dns
          /\ ~should_failover(state', state'.health_history[
                                          Len(state'.health_history)])
          /\ ~should_restore(state', state'.health_history[
                                         Len(state'.health_history)])
      ]_vars

C26_Witness ==
    /\ ev.op = "cycle" /\ ev.checked /\ ev.attempted = "none"
    /\ ev.healthy
    /\ ev.was_failed_over /\ state.is_failed_over
    /\ state.last_failover # None
    /\ state.consecutive_successes > 0

\* C27: a check is healthy iff success is true and latency_ms is absent or
\* at most latency_threshold_ms, and update_state, should_failover,
\* should_restore and intelligent_startup all classify the check the same
\* way: what update_state counts as a failure should_restore never accepts
\* and should_failover never ignores, at any value of the counters.
Healthy(hc) ==
    hc.success
    /\ (hc.latency_ms = None \/ hc.latency_ms <= latency_threshold_ms)

Armed(s, failed_over) ==
    [s EXCEPT !.is_failed_over = failed_over,
              !.consecutive_failures = failure_threshold,
              !.consecutive_successes = success_threshold]

C27_OneClassification ==
    [][/\ (ev'.op = "cycle" /\ ev'.checked)
          => LET hc == state'.health_history[Len(state'.health_history)]
                 s1 == update_state(state, hc)
             IN  /\ hc = ping_with_latency(ev'.probe, hc.timestamp)
                 /\ (s1.consecutive_failures = 0) <=> Healthy(hc)
                 /\ (s1.consecutive_successes = 0) <=> ~Healthy(hc)
                 /\ ev'.attempted = "none"
                    => /\ (state'.consecutive_failures = 0) <=> Healthy(hc)
                       /\ (state'.consecutive_successes = 0)
                          <=> ~Healthy(hc)
                 /\ should_restore(Armed(state, TRUE), hc) <=> Healthy(hc)
                 /\ should_failover(Armed(state, FALSE), hc)
                    <=> ~Healthy(hc)
                 /\ should_restore(s1, hc) => Healthy(hc)
                 /\ should_failover(s1, hc) => ~Healthy(hc)
       /\ (ev'.op = "construct" /\ ev'.checked)
          => (ev'.healthy
              <=> Healthy(ping_with_latency(ev'.probe, now + 1)))
      ]_vars

C27_Witness ==
    /\ ev.op = "cycle" /\ ev.checked
    /\ ev.probe = AtThreshold
    /\ state.health_history[Len(state.health_history)].latency_ms
       = latency_threshold_ms
    /\ state.consecutive_successes > 0
    /\ state.consecutive_failures = 0

\* C28: ping_with_latency returns a HealthCheck for every outcome of the
\* probe; success is true and error absent exactly when a response with a
\* status below 500 was received, and otherwise success is false and error
\* is a non-empty text.
Received(r) ==
    IF r.http.kind = "response" THEN r.http
    ELSE IF r.http.kind = "timeout" THEN r.http
    ELSE r.https

C28_ProbeAlwaysReturns ==
    (ev.op = "cycle" /\ ev.checked)
    => LET hc == state.health_history[Len(state.health_history)]
           a == Received(ev.probe)
       IN  /\ DOMAIN hc = {"timestamp", "success", "latency_ms", "error"}
           /\ hc.success \in BOOLEAN
           /\ hc.success <=> (a.kind = "response" /\ a.status < 500)
           /\ hc.success => hc.error = NoError
           /\ ~hc.success => (hc.error # NoError /\ hc.error # "")

C28_Witness ==
    /\ ev.op = "cycle" /\ ev.checked
    /\ ev.probe = HttpsOnly
    /\ state.health_history[Len(state.health_history)].success
    /\ \E i \in 1..Len(state.health_history) :
          state.health_history[i].error = "HTTP 500"

\* C29: constructing the engine with CF_API_TOKEN or CF_ZONE_ID unset,
\* empty or starting with "your_" raises, and it raises before the state
\* file is read and before any call to the DNS provider or probe: the
\* error is load_config's whatever the state file holds, and nothing has
\* changed.
Placeholders == {"your_", "your_cloudflare_value_here"}

Unusable(env, name) ==
    \/ name \notin DOMAIN env
    \/ env[name] = ""
    \/ env[name] \in Placeholders

Unconfigured(env) ==
    Unusable(env, "CF_API_TOKEN") \/ Unusable(env, "CF_ZONE_ID")

ConstructorRan == ev'.op \in {"construct", "construct_raised", "config_raised"}

C29_UnconfiguredIsFatal ==
    [][ConstructorRan
       => /\ Unconfigured(left.env) <=> ev'.op = "config_raised"
          /\ ev'.op = "config_raised"
             => /\ pc' = "down"
                /\ ~ev'.read /\ ~ev'.checked /\ ev'.attempted = "none"
                /\ UNCHANGED <<state, dns, file, now, obs>>
      ]_vars

C29_Witness ==
    /\ ev.op = "config_raised"
    /\ pc = "down"
    /\ file = TextFile
    /\ "CF_API_TOKEN" \in DOMAIN left.env
    /\ left.env["CF_API_TOKEN"] = "value"
    /\ "CF_ZONE_ID" \notin DOMAIN left.env

\* C30: last_failover changes only in a step that commits a failover and
\* last_restore only in a step that commits a restore (a successful write
\* in a cycle, in a manual override or at startup), the committing step
\* stamps the time of the commit, and the last_failover of a failover
\* committed in a running process is not earlier than the last_restore the
\* state held before it.  The clock read by datetime.now() is taken not to
\* go backwards.
Before ==
    IF ev'.op = "construct" THEN load_state(file, FALSE).state ELSE state

\* The steps of an engine that lives on: its construction, its cycles and
\* its manual operations.
EngineStep ==
    ev'.op \in {"construct", "cycle", "manual_failover", "manual_restore",
                "cli_failover", "cli_restore", "cli_check"}

Commits(target) == ev'.attempted = target /\ ev'.write_ok

C30_TimestampsFollowCommits ==
    [][EngineStep
       => /\ state'.last_failover # Before.last_failover
             => Commits("backup")
          /\ state'.last_restore # Before.last_restore
             => Commits("primary")
          /\ Commits("backup")
             => /\ state'.last_failover > now
                /\ state'.last_failover <= now'
                /\ state'.is_failed_over
                /\ dns' = backup_ip
                /\ Before.last_restore # None
                   => state'.last_failover >= Before.last_restore
          /\ Commits("primary")
             => /\ state'.last_restore > now
                /\ state'.last_restore <= now'
                /\ ~state'.is_failed_over
                /\ dns' = primary_ip
      ]_vars

C30_Witness ==
    /\ ev.op = "cycle" /\ ev.attempted = "backup" /\ ev.write_ok
    /\ state.last_restore # None
    /\ state.last_failover # None
    /\ state.last_failover > state.last_restore

\* C31: a save_state that fails raises nothing (the loop goes on), leaves
\* the in-memory state what the cycle made it and the file what it was, and
\* the decision of every cycle follows from the in-memory state the cycle
\* started with, whatever the file holds.
InMemoryDecision ==
    /\ ev'.attempted = "backup"
       <=> /\ ev'.checked /\ ~ev'.healthy
           /\ ~state.is_failed_over
           /\ state.consecutive_failures + 1 >= failure_threshold
    /\ ev'.attempted = "primary"
       <=> /\ ev'.checked /\ ev'.healthy
           /\ state.is_failed_over
           /\ state.consecutive_successes + 1 >= success_threshold

C31_FailedSaveIsRecoverable ==
    [][ev'.op = "cycle"
       => /\ ~ev'.raised => InMemoryDecision
          /\ ~ev'.save_ok
             => /\ pc' = "run"
                /\ file' = file
                /\ ev'.checked
                   => /\ state'.health_history # state.health_history
                      /\ state'.health_history[Len(state'.health_history)]
                             .timestamp > now
                /\ (ev'.checked /\ ev'.attempted = "none")
                   => /\ state'.consecutive_failures
                         = IF ev'.healthy THEN 0
                           ELSE state.consecutive_failures + 1
                      /\ state'.consecutive_successes
                         = IF ev'.healthy
                           THEN state.consecutive_successes + 1 ELSE 0
                /\ (~ev'.checked /\ ~ev'.raised)
                   => state' = state
      ]_vars

\* A failover decided on a counter that only the memory holds: the cycle
\* before failed to save, so the file has no failure on record.
C31_Witness ==
    /\ ev.op = "cycle" /\ ev.attempted = "backup" /\ ev.write_ok
    /\ ~ev.save_ok
    /\ ev.was_failures = 1
    /\ state.is_failed_over
    /\ load_state(file, TRUE).state.consecutive_failures = 0
    /\ ~load_state(file, TRUE).state.is_failed_over

\* C32: a check cycle issues at most one DNS write and never both a
\* failover and a restore; what it writes is backup_ip when it started in
\* PRIMARY_ACTIVE and primary_ip when it started in FAILED_OVER, so the
\* record changes to one of the two addresses only.
C32_OneWritePerCycle ==
    [][ev'.op = "cycle"
       => /\ ev'.attempted \in {"none", "backup", "primary"}
          /\ ev'.attempted = "backup" => ~state.is_failed_over
          /\ ev'.attempted = "primary" => state.is_failed_over
          /\ dns' # dns
             => /\ ev'.attempted # "none" /\ ev'.write_ok
                /\ dns' = IF state.is_failed_over THEN primary_ip
                          ELSE backup_ip
          /\ (ev'.attempted # "none" /\ ev'.write_ok)
             => /\ dns' = IF ev'.attempted = "backup" THEN backup_ip
                          ELSE primary_ip
                /\ state'.is_failed_over = ~state.is_failed_over
                /\ ~should_failover(state',
                        state'.health_history[Len(state'.health_history)])
                /\ ~should_restore(state',
                        state'.health_history[Len(state'.health_history)])
          /\ (ev'.attempted # "none" /\ ~ev'.write_ok)
             => /\ dns' = dns
                /\ state'.is_failed_over = state.is_failed_over
      ]_vars

C32_Witness ==
    /\ ev.op = "cycle" /\ ev.attempted = "primary" /\ ev.write_ok
    /\ ev.was_failed_over /\ ~state.is_failed_over
    /\ dns = primary_ip
    /\ state.last_failover # None

\* C33: with the loop running, the provider failing finitely often and
\* every check of the primary healthy from some point on, an engine that is
\* FAILED_OVER eventually is PRIMARY_ACTIVE with the record at primary_ip,
\* and a cycle whose check is healthy (or that makes no check) leaves it
\* there.
HealthyFromNowOn == left.unhealthy = 0

Restored == ~state.is_failed_over /\ dns = primary_ip

C33_EventuallyRestored ==
    /\ (pc = "run" /\ state.is_failed_over /\ HealthyFromNowOn)
       ~> (pc = "run" /\ Restored)
    /\ [][(pc = "run" /\ Restored /\ ev'.op = "cycle"
           /\ (ev'.checked => ev'.healthy))
          => (pc' = "run" /\ Restored')
         ]_vars

C33_Witness ==
    /\ ev.op = "cycle" /\ ev.attempted = "primary" /\ ev.write_ok
    /\ ev.was_failed_over
    /\ ev.was_successes >= success_threshold
    /\ ~obs.noWriteFailed
    /\ HealthyFromNowOn
    /\ pc = "run" /\ Restored

\* C34: after a startup reconciliation that read the record, found at
\* least one endpoint healthy and, if it had to write, wrote, is_failed_over
\* says whether the record is at backup_ip and current_ip is the content of
\* the record, whatever the loaded state said.
StartupReconciled ==
    /\ ev'.op = "construct"
    /\ ev'.read
    /\ ev'.checked /\ (ev'.healthy \/ ev'.bhealthy)
    /\ ev'.attempted # "none" => ev'.write_ok

C34_StartupMatchesRecord ==
    [][StartupReconciled
       => /\ state'.is_failed_over = (dns' = backup_ip)
          /\ state'.current_ip = dns'
          /\ dns' \in {primary_ip, backup_ip}
      ]_vars

C34_Witness ==
    /\ ev.op = "construct" /\ ev.read /\ ev.checked /\ ev.healthy
    /\ ev.attempted = "none"
    /\ ev.was_failed_over
    /\ ~state.is_failed_over
    /\ dns = primary_ip /\ state.current_ip = primary_ip

\* C35: save_state followed by load_state is the identity on MonitorState:
\* the state of a running engine, with at most 100 history entries, is what
\* load_state makes of what save_state writes for it, field by field and
\* entry by entry, and load_state raises nothing on it; the file a cycle
\* has saved loads as the state the cycle ended with.
RoundTrip(s) == load_state(save_state(s), FALSE)

InGetStatus == ev'.op \in {"get_status", "get_status_reads"}

C36_GetStatusReadsOnly ==
    [][InGetStatus
       => /\ UNCHANGED <<state, dns, file, pc>>
          /\ ev'.op = "get_status"
             => status'.current_ip = IF ev'.read THEN dns ELSE "unknown"
          /\ ev'.op = "get_status_reads"
             => status'.current_ip = status.current_ip
          /\ (ev'.op = "get_status_reads"
              /\ StatusFields[status.at] = "health_checks_total")
             => status'.snap.health_checks_total
                = Len(state.health_history)
      ]_vars

C36_Witness ==
    /\ ev.op = "get_status_reads"
    /\ status.at = Len(StatusFields) + 1
    /\ status.snap.health_checks_total = Len(state.health_history)
    /\ status.snap.health_checks_total > 0
    /\ status.current_ip = dns
    /\ state.current_ip # dns

\* C37 as stated: failover_to_backup and restore_to_primary return True
\* without a write when the record already holds the target, return False
\* without a write when the record cannot be found, and two calls in a row
\* issue at most one write and leave the record as one call does.
SimpleTarget(op) == IF op = "failover" THEN cf_backup_ip ELSE cf_primary_ip

SimpleCall == ev'.op \in {"failover", "restore"}

Twice == SimpleCall /\ ev.op = ev'.op

Issued(e) == IF e.attempted # "none" THEN 1 ELSE 0

OneCall ==
    SimpleCall
    => /\ (ev'.read /\ dns = SimpleTarget(ev'.op))
          => (ev'.ret /\ ev'.attempted = "none" /\ dns' = dns)
       /\ ~ev'.read
          => (~ev'.ret /\ ev'.attempted = "none" /\ dns' = dns)
       /\ ev'.ret => dns' = SimpleTarget(ev'.op)
       /\ ~ev'.ret => dns' = dns

C37_TwoCallsOneWrite ==
    [][/\ OneCall
       /\ Twice => (Issued(ev) + Issued(ev') <= 1 /\ dns' = dns)
      ]_vars

\* C37, amended: the same of one call; of two calls in a row, the second
\* issues no write and leaves the record alone when the first returned True
\* and the record can be read, and at most one of their writes succeeds.  A
\* call whose write failed is followed by a call that writes again.
C37_RepeatAfterSuccess ==
    [][/\ OneCall
       /\ (Twice /\ ev.ret /\ ev'.read)
          => (ev'.ret /\ ev'.attempted = "none" /\ dns' = dns)
       /\ (Twice /\ ev.ret) => (Issued(ev') = 0 /\ dns' = dns)
       /\ Twice => ~(ev.write_ok /\ ev'.write_ok)
       /\ (Twice /\ ev.attempted # "none" /\ ~ev.write_ok /\ ev'.read)
          => ev'.attempted = ev.attempted
      ]_vars

C37_Witness ==
    /\ ev.op = "failover"
    /\ ev.read /\ ev.ret /\ ev.attempted = "none"
    /\ dns = cf_backup_ip
    /\ now >= 2
    /\ left.ops < SimpleFaults

\* C38: check_and_failover decides on one ping, with no threshold and no
\* memory: a ping that succeeds sends the record to primary_ip and a ping
\* that fails or times out sends it to backup_ip, as restore_to_primary and
\* failover_to_backup do, in that one call; a ping that raises another
\* error makes it return False with no read and no write of the record.
C38_OnePingDecides ==
    [][ev'.op = "check"
       => /\ (ev'.checked /\ ev'.healthy)
             => /\ ev'.attempted \in {"none", "primary"}
                /\ ev'.ret <=> (ev'.read /\ dns' = cf_primary_ip)
                /\ (ev'.read /\ dns # cf_primary_ip)
                   => ev'.attempted = "primary"
          /\ (ev'.checked /\ ~ev'.healthy)
             => /\ ev'.attempted \in {"none", "backup"}
                /\ ev'.ret <=> (ev'.read /\ dns' = cf_backup_ip)
                /\ (ev'.read /\ dns # cf_backup_ip)
                   => ev'.attempted = "backup"
          /\ ~ev'.ret => dns' = dns
          /\ ev'.raised
             => /\ ~ev'.checked
                /\ ~ev'.ret /\ ~ev'.read /\ ev'.attempted = "none"
                /\ dns' = dns
                /\ left'.ops = left.ops
      ]_vars

C38_Witness ==
    /\ ev.op = "check" /\ ev.checked /\ ~ev.healthy
    /\ ev.attempted = "backup" /\ ev.write_ok /\ ev.ret
    /\ dns = cf_backup_ip
    /\ now = 1

----------------------------------------------------------------------------
\* C39: in the web front end GET /health answers 200 exactly when
\* monitor_status.running is true and 503 otherwise; running is false until
\* the engine has been constructed, and false again once monitor_loop has
\* ended with an exception; so /health never answers 200 while no monitor
\* loop is executing check cycles.

\* The answer follows monitor_status.running.
HealthFollowsRunning ==
    ev.op = "health" =>
        /\ ev.status_code \in {200, 503}
        /\ (ev.status_code = 200) = app.running

\* running is true only with an engine constructed, and false after the
\* thread has ended.
RunningFollowsThread ==
    /\ app.running => pc = "run" /\ app.monitor_thread # "start_monitor"
    /\ app.monitor_thread = "ended" => ~app.running

\* The monitor thread is in the while loop of monitor_loop.
ExecutingCycles == app.monitor_thread = "cycles"

C39_HealthyOnlyWhileCycling ==
    /\ HealthFollowsRunning
    /\ RunningFollowsThread
    /\ (ev.op = "health" /\ ev.status_code = 200 => ExecutingCycles)

====
